---- MODULE Spec2Model ----
(***************************************************************************)
(* Model of the achievement aggregation route                              *)
(*   src/src/app/api/steam/get-achievements/route.ts  (GET)                *)
(* with the Redis cache it reads through.  One Request step is one whole   *)
(* run of the handler; Tick lets cache entries age and expire.             *)
(* Further down: the shared Redis client of src/src/lib/redis.ts           *)
(* (getRedisClient) and the event worker of src/unnamed/part_000           *)
(* (pollForEvents, processLogs), each with its own specification.          *)
(***************************************************************************)
EXTENDS Integers, Sequences, FiniteSets, TLC

\* The achievement route: the cache store, the request being answered, and two
\* history variables (fetched, degraded).
VARIABLES cache, fetched, last, degraded
\* src/src/lib/redis.ts: the module's two variables, the clients created so
\* far, and what each caller of getRedisClient got.
VARIABLES redisClient, connectPromise, clients, received
\* src/unnamed/part_000: the worker's watermark, the number of timers it has
\* pending, whether initialize() was called, the calls of pollForEvents that
\* are under way, and the last cycle that ended; the chain it tails; history
\* of the seed, of the logs surfaced and of the windows fetched.
VARIABLES lastProcessedBlock, timer, started, running, cycle, height, chainLogs,
          seeded, surfaced, windows

routeVars == <<cache, fetched, last, degraded>>
clientVars == <<redisClient, connectPromise, clients, received>>
workerVars == <<lastProcessedBlock, timer, started, running, cycle, height, chainLogs,
                seeded, surfaced, windows>>

\* src/unnamed/part_002: what the achievements page renders with (the appId of
\* the route and the wallet's connection, account and chain), its minting
\* status per achievement, its error message, the handleMint calls that await
\* switchChain, and the writeContract call the wallet has not settled; history
\* of the token ids handleMint derived.
VARIABLES page, mintingStatus, mintError, switching, write, derived

\* src/contracts/ignition/modules/DeployAchievementNFT.ts: the balances of
\* the AchievementNFT contract and the AchievementMinted events it emitted.
VARIABLES balances, events

pageVars == <<page, mintingStatus, mintError, switching, write, derived>>
tokenVars == <<balances, events>>
mintVars == <<pageVars, tokenVars>>
\* The Steam OpenID callback: the browser's steamSession cookie and the last
\* callback request with its response.
VARIABLES jar, callback
sessionVars == <<jar, callback>>
vars == <<routeVars, clientVars, workerVars, mintVars, sessionVars>>

(***************************************************************************)
(* Bounds and program constants                                            *)
(***************************************************************************)
MaxSchemaLen == 2
MaxPlayerLen == 2

CACHE_TTL_SECONDS == 3600

\* Seconds that pass in one Tick step: two ticks make one TTL.
TickSeconds == 1800

(***************************************************************************)
(* JSON values.  A parsed body is JNull (null; it stands for every falsy   *)
(* JSON value) or an object [t |-> "obj", ...]; JUndefined is a variable   *)
(* the handler has not assigned.                                           *)
(***************************************************************************)
JNull == [t |-> "null"]
JUndefined == [t |-> "undefined"]

Truthy(j) == j.t = "obj"

\* JSON.stringify of a parsed body gives a non-empty text; JSON.parse of that
\* text gives the body back ("null" parses to null).
JSONstringify(j) == [json |-> j]
JSONparse(s) == s.json
\* `if (cached)`: a string is truthy unless it is empty; stringified JSON never is.
StringTruthy(s) == TRUE

(***************************************************************************)
(* Payload shapes (src/src/lib/redis.ts 90-116, route.ts 10-35)            *)
(***************************************************************************)
Names == {"A", "B", "C"}
UnlockTime == 1700

\* percent as the upstream sends it: a JSON number, or a JSON string holding
\* the decimal text of v (typeof percent !== 'number').
Num(v) == [num |-> TRUE, v |-> v]
Str(v) == [num |-> FALSE, v |-> v]

PlayerAchievement == [apiname : Names, achieved : {0, 1}, unlocktime : {0, UnlockTime}]
AchievementSchema == [name : Names]
GlobalAchievementPercentage == [name : Names, percent : {Num(40), Num(80), Str(40), Str(80)}]

NoPlayerstats == [has |-> FALSE]
PlayerStatsResponse(success, message, hasList, list) ==
    [t |-> "obj",
     playerstats |-> [has |-> TRUE, success |-> success, message |-> message,
                      hasAchievements |-> hasList, achievements |-> list]]
PlayerNoStats == [t |-> "obj", playerstats |-> NoPlayerstats]

NoGame == [has |-> FALSE]
SchemaResponse(hasStats, list) ==
    [t |-> "obj",
     game |-> [has |-> TRUE, gameName |-> "TF2",
               hasAchievements |-> hasStats, achievements |-> list]]
SchemaNoGame == [t |-> "obj", game |-> NoGame]

GlobalPercentagesResponse(hasList, list) ==
    [t |-> "obj",
     achievementpercentages |-> [has |-> hasList, achievements |-> list]]

\* playerAchievementsData?.playerstats?.success
PlayerSuccess(j) == Truthy(j) /\ j.playerstats.has /\ j.playerstats.success
\* playerAchievementsData?.playerstats?.message
PlayerMessage(j) == IF Truthy(j) /\ j.playerstats.has THEN j.playerstats.message ELSE ""
\* SchemaHasAchievements written as schemaData?.game: availableGameStats is not
\* looked at.
SchemaHasGame(j) == Truthy(j) /\ j.game.has

\* schemaData?.game?.availableGameStats?.achievements
SchemaHasAchievements(j) == Truthy(j) /\ j.game.has /\ j.game.hasAchievements
\* globalPercentagesData?.achievementpercentages?.achievements || []
GlobalAchievementsOf(j) ==
    IF Truthy(j) /\ j.achievementpercentages.has
    THEN j.achievementpercentages.achievements ELSE <<>>

(***************************************************************************)
(* Combine and sort (route.ts 128-129, 231-253)                            *)
(***************************************************************************)
\* new Map(list.map(a => [a.apiname, a])): a later entry replaces an earlier one.
PlayerMapHas(list, name) == \E i \in 1..Len(list) : list[i].apiname = name
PlayerMapGet(list, name) ==
    list[CHOOSE i \in 1..Len(list) :
            /\ list[i].apiname = name
            /\ \A j \in (i+1)..Len(list) : list[j].apiname # name]

GlobalMapHas(list, name) == \E i \in 1..Len(list) : list[i].name = name
GlobalMapGet(list, name) ==
    list[CHOOSE i \in 1..Len(list) :
            /\ list[i].name = name
            /\ \A j \in (i+1)..Len(list) : list[j].name # name].percent

\* CombineOne with achieved: !!playerAch: an entry counts as unlocked.
CombineOnePresent(schemaAch, playerAchievements, globalAchievements) ==
    LET has == PlayerMapHas(playerAchievements, schemaAch.name)
        playerAch == PlayerMapGet(playerAchievements, schemaAch.name)
    IN [name |-> schemaAch.name,
        achieved |-> has,
        unlocktime |-> IF has THEN playerAch.unlocktime ELSE 0,
        percent |-> IF GlobalMapHas(globalAchievements, schemaAch.name)
                    THEN GlobalMapGet(globalAchievements, schemaAch.name)
                    ELSE Num(100)]

CombineOne(schemaAch, playerAchievements, globalAchievements) ==
    LET has == PlayerMapHas(playerAchievements, schemaAch.name)
        playerAch == PlayerMapGet(playerAchievements, schemaAch.name)
    IN [name |-> schemaAch.name,
        achieved |-> IF has THEN playerAch.achieved = 1 ELSE FALSE,
        unlocktime |-> IF has THEN playerAch.unlocktime ELSE 0,
        percent |-> IF GlobalMapHas(globalAchievements, schemaAch.name)
                    THEN GlobalMapGet(globalAchievements, schemaAch.name)
                    ELSE Num(100)]

RECURSIVE Known(_, _)
Known(schemaAchievements, playerAchievements) ==
    IF schemaAchievements = <<>> THEN <<>>
    ELSE (IF PlayerMapHas(playerAchievements, Head(schemaAchievements).name)
          THEN <<Head(schemaAchievements)>> ELSE <<>>)
         \o Known(Tail(schemaAchievements), playerAchievements)

\* Combine over the definitions the player has a state for only.
CombineKnown(schemaAchievements, playerAchievements, globalAchievements) ==
    [i \in 1..Len(Known(schemaAchievements, playerAchievements)) |->
        CombineOne(Known(schemaAchievements, playerAchievements)[i],
                   playerAchievements, globalAchievements)]

Combine(schemaAchievements, playerAchievements, globalAchievements) ==
    [i \in 1..Len(schemaAchievements) |->
        CombineOne(schemaAchievements[i], playerAchievements, globalAchievements)]

\* typeof a.percent === 'number' ? a.percent : 100
SortPercent(a) == IF a.percent.num THEN a.percent.v ELSE 100

Compare(a, b) ==
    IF a.achieved /\ ~b.achieved THEN -1
    ELSE IF ~a.achieved /\ b.achieved THEN 1
    ELSE SortPercent(a) - SortPercent(b)

\* InsertSorted that puts x before the elements it compares equal to.
InsertSortedBeforeEqual(sorted, x) ==
    LET later == {i \in 1..Len(sorted) : Compare(x, sorted[i]) <= 0}
        pos == IF later = {} THEN Len(sorted) + 1
               ELSE CHOOSE i \in later : \A j \in later : i <= j
    IN SubSeq(sorted, 1, pos - 1) \o <<x>> \o SubSeq(sorted, pos, Len(sorted))

\* Array.prototype.sort is stable: x goes before the first element it is
\* strictly less than.
InsertSorted(sorted, x) ==
    LET later == {i \in 1..Len(sorted) : Compare(x, sorted[i]) < 0}
        pos == IF later = {} THEN Len(sorted) + 1
               ELSE CHOOSE i \in later : \A j \in later : i <= j
    IN SubSeq(sorted, 1, pos - 1) \o <<x>> \o SubSeq(sorted, pos, Len(sorted))

RECURSIVE SortFrom(_, _, _)
SortFrom(list, i, acc) ==
    IF i > Len(list) THEN acc
    ELSE SortFrom(list, i + 1, InsertSorted(acc, list[i]))

SortAchievements(list) == SortFrom(list, 1, <<>>)

(***************************************************************************)
(* The outside world of one request                                        *)
(***************************************************************************)
\* What fetch(url) does: it rejects (transport error), or it resolves to a
\* response with a status and a body that parses as JSON or does not.
\* Unused stands for an upstream the request never calls.
Throw == [net |-> "throw"]
Unused == [net |-> "unused"]
Unparseable == [parse |-> FALSE]
Parsed(j) == [parse |-> TRUE, json |-> j]
Http(status, body) == [net |-> "http", status |-> status, body |-> body]

\* Response.ok
Ok(status) == status >= 200 /\ status <= 299

\* How the cache store behaves during the request: getRedisClient() rejects
\* ("connectFail"), or it resolves and redis.get / redis.set throw or work.
RedisModes == {"ok", "connectFail", "getFail", "setFail", "opsFail"}
RedisDefined(mode) == mode # "connectFail"
GetThrows(mode) == mode \in {"getFail", "opsFail"}
SetThrows(mode) == mode \in {"setFail", "opsFail"}

(***************************************************************************)
(* Cache store: key -> entry with the seconds it has left (SET key v EX n) *)
(***************************************************************************)
NoEntry == [present |-> FALSE]
\* Entry that never runs out of time.
EntryUnexpiring(text, ttl) ==
    [present |-> TRUE, text |-> text, ttl |-> CACHE_TTL_SECONDS + TickSeconds]

Entry(text, ttl) == [present |-> TRUE, text |-> text, ttl |-> ttl]

\* PlayerCacheKey that names the game only.
PlayerCacheKeyOfGame(steamId, appId) == "playerAch:7:" \o appId

PlayerCacheKey(steamId, appId) == "playerAch:" \o steamId \o ":" \o appId
SchemaCacheKey(appId) == "schema:" \o appId
GlobalCacheKey(appId) == "globalAch:" \o appId

\* One I/O operation of the handler, in the order it was made.
Ev(op, kind, key, ok) == [op |-> op, kind |-> kind, key |-> key, ok |-> ok]

\* CacheRead without its catch clause: a failing redis.get leaves the block.
CacheReadUncaught(mode, store, kind, key) ==
    IF ~RedisDefined(mode)
    THEN [calls |-> <<>>, data |-> JUndefined, threw |-> FALSE]
    ELSE IF GetThrows(mode)
    THEN [calls |-> <<Ev("get", kind, key, FALSE)>>, data |-> JUndefined, threw |-> TRUE]
    ELSE [calls |-> <<Ev("get", kind, key, TRUE)>>,
          data |-> IF store[key].present /\ StringTruthy(store[key].text)
                   THEN JSONparse(store[key].text) ELSE JUndefined,
          threw |-> FALSE]

\* if (redis) { try { cached = await redis.get(key);
\*                     if (cached) data = JSON.parse(cached) } catch { log } }
\* threw: an exception leaves the block; the catch clause lets none out.
CacheRead(mode, store, kind, key) ==
    IF ~RedisDefined(mode)
    THEN [calls |-> <<>>, data |-> JUndefined, threw |-> FALSE]
    ELSE IF GetThrows(mode)
    THEN [calls |-> <<Ev("get", kind, key, FALSE)>>, data |-> JUndefined, threw |-> FALSE]
    ELSE [calls |-> <<Ev("get", kind, key, TRUE)>>,
          data |-> IF store[key].present /\ StringTruthy(store[key].text)
                   THEN JSONparse(store[key].text) ELSE JUndefined,
          threw |-> FALSE]

\* CacheWrite with the expiry given as { EX: 60 }.
CacheWriteShortExpiry(mode, store, kind, key, data) ==
    IF SetThrows(mode)
    THEN [calls |-> <<Ev("set", kind, key, FALSE)>>, cache |-> store, threw |-> FALSE]
    ELSE [calls |-> <<Ev("set", kind, key, TRUE)>>,
          cache |-> [store EXCEPT ![key] = Entry(JSONstringify(data), 60)],
          threw |-> FALSE]

\* try { await redis.set(key, JSON.stringify(data), { EX: CACHE_TTL_SECONDS }) } catch { log }
CacheWrite(mode, store, kind, key, data) ==
    IF SetThrows(mode)
    THEN [calls |-> <<Ev("set", kind, key, FALSE)>>, cache |-> store, threw |-> FALSE]
    ELSE [calls |-> <<Ev("set", kind, key, TRUE)>>,
          cache |-> [store EXCEPT ![key] = Entry(JSONstringify(data), CACHE_TTL_SECONDS)],
          threw |-> FALSE]

(***************************************************************************)
(* Responses                                                               *)
(***************************************************************************)
NoResp == [status |-> 0, t |-> "none"]
\* NextResponse.json({ message }, { status }); code is the number a message embeds.
ErrorJson(status, message, code) ==
    [status |-> status, t |-> "error", message |-> message, code |-> code]
OkJson(gameName, steamId, achievements) ==
    [status |-> 200, t |-> "ok", gameName |-> gameName, steamId |-> steamId,
     achievements |-> achievements]

InternalError == ErrorJson(500, "An internal server error occurred.", 0)

\* NextResponse.json(body, { status }) builds a Response with a body: the
\* constructor throws a TypeError for a status that allows none, and the outer
\* catch of GET answers 500.
NullBodyStatus(status) == status \in {101, 204, 205, 304}
Send(resp) == IF NullBodyStatus(resp.status) THEN InternalError ELSE resp

\* What a stage of the handler hands on: it continues with data, returns a
\* response, or throws into the outer catch.
Stage(end, resp, data, store, calls) ==
    [end |-> end, resp |-> resp, data |-> data, cache |-> store, calls |-> calls]

(***************************************************************************)
(* GET, stage 1: player achievements (route.ts 71-118)                     *)
(***************************************************************************)
\* ErrorReport that looks for playerstats.error, a field no body here has.
ErrorReportOther(body) == FALSE

\* errorJson?.playerstats?.success === false && errorJson?.playerstats?.message
ErrorReport(body) ==
    /\ body.parse
    /\ Truthy(body.json)
    /\ body.json.playerstats.has
    /\ body.json.playerstats.success = FALSE
    /\ body.json.playerstats.message # ""

\* The branch of a response that is not ok (route.ts 90-101).
PlayerNotOk(o) ==
    IF ErrorReport(o.body)
    THEN ErrorJson(404, o.body.json.playerstats.message, 0)
    ELSE ErrorJson(o.status, "Failed to fetch player achievements. Status: ", o.status)

\* The write-back after a fetch (route.ts 107-117, 161-171, 214-225).
WriteBack(req, store, kind, key, data, calls) ==
    LET wr == CacheWrite(req.redis, store, kind, key, data)
    IN IF wr.threw THEN Stage("throw", NoResp, JUndefined, wr.cache, calls \o wr.calls)
       ELSE Stage("continue", NoResp, data, wr.cache, calls \o wr.calls)

ResolvePlayer(req, store) ==
    LET key == PlayerCacheKey(req.steamId, req.appId)
        rd == CacheRead(req.redis, store, "player", key)
        o == req.player
        calls == rd.calls \o <<Ev("fetch", "player", key, o.net = "http")>>
    IN IF rd.threw THEN Stage("throw", NoResp, JUndefined, store, rd.calls)
       ELSE IF Truthy(rd.data) THEN Stage("continue", NoResp, rd.data, store, rd.calls)
       ELSE IF o.net # "http" THEN Stage("throw", NoResp, JUndefined, store, calls)
       ELSE IF ~Ok(o.status) THEN Stage("return", PlayerNotOk(o), JUndefined, store, calls)
       ELSE IF ~o.body.parse THEN Stage("throw", NoResp, JUndefined, store, calls)
       ELSE IF RedisDefined(req.redis) /\ PlayerSuccess(o.body.json)
            THEN WriteBack(req, store, "player", key, o.body.json, calls)
       ELSE Stage("continue", NoResp, o.body.json, store, calls)

(***************************************************************************)
(* GET, stage 2: game schema (route.ts 132-172)                            *)
(***************************************************************************)
\* SchemaNotOk answering 500 whatever the upstream's status.
SchemaNotOkAs500(o) ==
    ErrorJson(500, "Failed to fetch game schema. Status: ", o.status)

SchemaNotOk(o) ==
    ErrorJson(o.status, "Failed to fetch game schema. Status: ", o.status)

ResolveSchema(req, store) ==
    LET key == SchemaCacheKey(req.appId)
        rd == CacheRead(req.redis, store, "schema", key)
        o == req.schema
        calls == rd.calls \o <<Ev("fetch", "schema", key, o.net = "http")>>
    IN IF rd.threw THEN Stage("throw", NoResp, JUndefined, store, rd.calls)
       ELSE IF Truthy(rd.data) THEN Stage("continue", NoResp, rd.data, store, rd.calls)
       ELSE IF o.net # "http" THEN Stage("throw", NoResp, JUndefined, store, calls)
       ELSE IF ~Ok(o.status) THEN Stage("return", SchemaNotOk(o), JUndefined, store, calls)
       ELSE IF ~o.body.parse THEN Stage("throw", NoResp, JUndefined, store, calls)
       ELSE IF RedisDefined(req.redis) /\ SchemaHasAchievements(o.body.json)
            THEN WriteBack(req, store, "schema", key, o.body.json, calls)
       ELSE Stage("continue", NoResp, o.body.json, store, calls)

(***************************************************************************)
(* GET, stage 3: global percentages (route.ts 184-227)                     *)
(***************************************************************************)
\* globalPercentagesData = { achievementpercentages: { achievements: [] } }
EmptyGlobal == GlobalPercentagesResponse(TRUE, <<>>)

\* ResolveGlobal that also stores the default it falls back to.
ResolveGlobalStoringDefault(req, store) ==
    LET key == GlobalCacheKey(req.appId)
        rd == CacheRead(req.redis, store, "rarity", key)
        o == req.rarity
        calls == rd.calls \o <<Ev("fetch", "rarity", key, o.net = "http")>>
    IN IF rd.threw THEN Stage("throw", NoResp, JUndefined, store, rd.calls)
       ELSE IF Truthy(rd.data) THEN Stage("continue", NoResp, rd.data, store, rd.calls)
       ELSE IF o.net # "http" THEN Stage("throw", NoResp, JUndefined, store, calls)
       ELSE IF ~o.body.parse /\ Ok(o.status)
       THEN Stage("throw", NoResp, JUndefined, store, calls)
       ELSE IF RedisDefined(req.redis)
            THEN WriteBack(req, store, "rarity", key,
                           IF Ok(o.status) THEN o.body.json ELSE EmptyGlobal, calls)
       ELSE Stage("continue", NoResp,
                  IF Ok(o.status) THEN o.body.json ELSE EmptyGlobal, store, calls)

ResolveGlobal(req, store) ==
    LET key == GlobalCacheKey(req.appId)
        rd == CacheRead(req.redis, store, "rarity", key)
        o == req.rarity
        calls == rd.calls \o <<Ev("fetch", "rarity", key, o.net = "http")>>
    IN IF rd.threw THEN Stage("throw", NoResp, JUndefined, store, rd.calls)
       ELSE IF Truthy(rd.data) THEN Stage("continue", NoResp, rd.data, store, rd.calls)
       ELSE IF o.net # "http" THEN Stage("throw", NoResp, JUndefined, store, calls)
       ELSE IF ~Ok(o.status) THEN Stage("continue", NoResp, EmptyGlobal, store, calls)
       ELSE IF ~o.body.parse THEN Stage("throw", NoResp, JUndefined, store, calls)
       ELSE IF RedisDefined(req.redis)
            THEN WriteBack(req, store, "rarity", key, o.body.json, calls)
       ELSE Stage("continue", NoResp, o.body.json, store, calls)

(***************************************************************************)
(* GET, the whole handler (route.ts 37-270)                                *)
(***************************************************************************)
\* What one run of the handler leaves behind: the response, the cache store
\* after it, the I/O it made, in order, and the three datasets it resolved
\* (JUndefined for one it did not get).
Result(resp, store, calls, player, schema, rarity) ==
    [resp |-> resp, cache |-> store, calls |-> calls,
     data |-> [player |-> player, schema |-> schema, rarity |-> rarity]]

\* playerAchievementsData.playerstats.achievements || []
PlayerAchievementsOf(j) ==
    IF j.playerstats.hasAchievements THEN j.playerstats.achievements ELSE <<>>

\* route.ts 120-126
PlayerInvalid(data) ==
    ErrorJson(404,
              IF PlayerMessage(data) # "" THEN PlayerMessage(data)
              ELSE "Could not retrieve achievements (profile private or no stats for this game?).",
              0)

\* route.ts 229-260
Respond(req, playerData, schemaData, globalData) ==
    OkJson(schemaData.game.gameName, req.steamId,
           SortAchievements(Combine(schemaData.game.achievements,
                                    PlayerAchievementsOf(playerData),
                                    GlobalAchievementsOf(globalData))))

\* route.ts 184-269: the schema is valid; resolve the percentages and answer.
GlobalStep(req, calls, p, s) ==
    LET g == ResolveGlobal(req, s.cache)
        c2 == calls \o g.calls
    IN IF g.end = "throw" THEN Result(InternalError, g.cache, c2, p.data, s.data, JUndefined)
       ELSE Result(Respond(req, p.data, s.data, g.data), g.cache, c2, p.data, s.data, g.data)

\* SchemaStep that removes the player entry when the schema stage ends the
\* request.
SchemaStepRollingBack(req, calls, p) ==
    LET s == ResolveSchema(req, p.cache)
        c1 == calls \o s.calls
        undone == [s.cache EXCEPT ![PlayerCacheKey(req.steamId, req.appId)] = NoEntry]
    IN IF s.end = "throw" THEN Result(InternalError, undone, c1, p.data, JUndefined, JUndefined)
       ELSE IF s.end = "return"
       THEN Result(Send(s.resp), undone, c1, p.data, JUndefined, JUndefined)
       ELSE IF ~SchemaHasAchievements(s.data)
            THEN Result(ErrorJson(500, "Failed to parse game schema data.", 0),
                        undone, c1, p.data, s.data, JUndefined)
       ELSE GlobalStep(req, c1, p, s)

\* route.ts 127-182: the player data is valid; resolve and validate the schema.
SchemaStep(req, calls, p) ==
    LET s == ResolveSchema(req, p.cache)
        c1 == calls \o s.calls
    IN IF s.end = "throw" THEN Result(InternalError, s.cache, c1, p.data, JUndefined, JUndefined)
       ELSE IF s.end = "return"
       THEN Result(Send(s.resp), s.cache, c1, p.data, JUndefined, JUndefined)
       ELSE IF ~SchemaHasAchievements(s.data)
            THEN Result(ErrorJson(500, "Failed to parse game schema data.", 0),
                        s.cache, c1, p.data, s.data, JUndefined)
       ELSE GlobalStep(req, c1, p, s)

\* PlayerStep with the validation of route.ts 120-126 moved below the schema
\* stage.
PlayerStepLate(req, calls, store) ==
    LET p == ResolvePlayer(req, store)
        c0 == calls \o p.calls
        s == ResolveSchema(req, p.cache)
    IN IF p.end = "throw"
       THEN Result(InternalError, p.cache, c0, JUndefined, JUndefined, JUndefined)
       ELSE IF p.end = "return"
       THEN Result(Send(p.resp), p.cache, c0, JUndefined, JUndefined, JUndefined)
       ELSE IF ~PlayerSuccess(p.data)
       THEN Result(PlayerInvalid(p.data), s.cache, c0 \o s.calls,
                   p.data, JUndefined, JUndefined)
       ELSE SchemaStep(req, c0, p)

\* route.ts 65-126: resolve and validate the player data.
PlayerStep(req, calls, store) ==
    LET p == ResolvePlayer(req, store)
        c0 == calls \o p.calls
    IN IF p.end = "throw"
       THEN Result(InternalError, p.cache, c0, JUndefined, JUndefined, JUndefined)
       ELSE IF p.end = "return"
       THEN Result(Send(p.resp), p.cache, c0, JUndefined, JUndefined, JUndefined)
       ELSE IF ~PlayerSuccess(p.data)
       THEN Result(PlayerInvalid(p.data), p.cache, c0, p.data, JUndefined, JUndefined)
       ELSE SchemaStep(req, c0, p)

Unserved(resp, store) == Result(resp, store, <<>>, JUndefined, JUndefined, JUndefined)

\* GET with the cache connection made before the parameters are looked at.
GETConnectsFirst(req, store) ==
    LET connect == <<Ev("connect", "redis", "", RedisDefined(req.redis))>>
    IN IF req.steamId = ""
       THEN Result(ErrorJson(400, "Missing steamId query parameter.", 0), store, connect,
                   JUndefined, JUndefined, JUndefined)
       ELSE IF req.appId = ""
       THEN Result(ErrorJson(400, "Missing appId query parameter.", 0), store, connect,
                   JUndefined, JUndefined, JUndefined)
       ELSE IF ~req.apiKey
       THEN Unserved(ErrorJson(500, "Server configuration error: Missing Steam API Key.", 0),
                     store)
       ELSE PlayerStep(req, connect, store)

GET(req, store) ==
    IF req.steamId = ""
    THEN Unserved(ErrorJson(400, "Missing steamId query parameter.", 0), store)
    ELSE IF req.appId = ""
    THEN Unserved(ErrorJson(400, "Missing appId query parameter.", 0), store)
    ELSE IF ~req.apiKey
    THEN Unserved(ErrorJson(500, "Server configuration error: Missing Steam API Key.", 0),
                  store)
    ELSE PlayerStep(req, <<Ev("connect", "redis", "", RedisDefined(req.redis))>>, store)

(***************************************************************************)
(* Inputs of the requests                                                  *)
(***************************************************************************)
\* The session cookie's value and the appId query parameter; "" is a cookie or
\* parameter that is missing or empty.
SteamIds == {"", "7", "8"}
AppIds == {"", "4", "5"}

Keys ==
    {PlayerCacheKey(s, a) : s \in SteamIds \ {""}, a \in AppIds \ {""}}
    \cup {SchemaCacheKey(a) : a \in AppIds \ {""}}
    \cup {GlobalCacheKey(a) : a \in AppIds \ {""}}

\* Statuses an upstream answers with.
HttpStatuses == {200, 304, 403, 500}

NotPublic == "Profile is not public"

PlayerBodies ==
    {JNull, PlayerNoStats,
     PlayerStatsResponse(FALSE, NotPublic, FALSE, <<>>),
     PlayerStatsResponse(FALSE, "", FALSE, <<>>),
     PlayerStatsResponse(TRUE, "", FALSE, <<>>),
     PlayerStatsResponse(TRUE, "", TRUE,
        <<[apiname |-> "A", achieved |-> 1, unlocktime |-> UnlockTime]>>)}

\* Bodies of a response that is not ok: no JSON, a failure report with its
\* reason, a failure report without one.
PlayerErrorBodies ==
    {Unparseable,
     Parsed(PlayerStatsResponse(FALSE, NotPublic, FALSE, <<>>)),
     Parsed(PlayerStatsResponse(FALSE, "", FALSE, <<>>))}

PlayerOutcomes ==
    {Throw}
    \cup {Http(st, b) : st \in HttpStatuses \ {200}, b \in PlayerErrorBodies}
    \cup {Http(200, Unparseable)}
    \cup {Http(200, Parsed(j)) : j \in PlayerBodies}

SchemaBodies ==
    {JNull, SchemaNoGame, SchemaResponse(FALSE, <<>>),
     SchemaResponse(TRUE, <<[name |-> "A"], [name |-> "B"]>>)}

SchemaOutcomes ==
    {Throw}
    \cup {Http(st, Unparseable) : st \in HttpStatuses}
    \cup {Http(200, Parsed(j)) : j \in SchemaBodies}

GlobalBodies ==
    {JNull, GlobalPercentagesResponse(FALSE, <<>>),
     GlobalPercentagesResponse(TRUE, <<>>),
     GlobalPercentagesResponse(TRUE,
        <<[name |-> "B", percent |-> Num(40)], [name |-> "A", percent |-> Num(80)]>>)}

GlobalOutcomes ==
    {Throw}
    \cup {Http(st, Unparseable) : st \in {200, 500}}
    \cup {Http(200, Parsed(j)) : j \in GlobalBodies}

Request(steamId, appId, apiKey, mode, player, schema, rarity) ==
    [steamId |-> steamId, appId |-> appId, apiKey |-> apiKey, redis |-> mode,
     player |-> player, schema |-> schema, rarity |-> rarity]

\* The request calls the upstream of this kind.
Fetches(kind, res) ==
    \E i \in 1..Len(res.calls) : res.calls[i].op = "fetch" /\ res.calls[i].kind = kind

KeyOf(kind, req) ==
    IF kind = "player" THEN PlayerCacheKey(req.steamId, req.appId)
    ELSE IF kind = "schema" THEN SchemaCacheKey(req.appId)
    ELSE GlobalCacheKey(req.appId)

Kinds == {"player", "schema", "rarity"}

\* The upstream answered with a payload the stage takes as its dataset.
Accepted(kind, o) ==
    /\ o.net = "http" /\ Ok(o.status) /\ o.body.parse
    /\ IF kind = "player" THEN PlayerSuccess(o.body.json)
       ELSE IF kind = "schema" THEN SchemaHasAchievements(o.body.json)
       ELSE Truthy(o.body.json)

Outcome(kind, req) ==
    IF kind = "player" THEN req.player
    ELSE IF kind = "schema" THEN req.schema ELSE req.rarity

\* The request stored a value under the key of this kind.
Wrote(kind, res) ==
    \E i \in 1..Len(res.calls) :
        res.calls[i].op = "set" /\ res.calls[i].kind = kind /\ res.calls[i].ok

\* With the cache store working, the request fetched a payload of this kind
\* from its upstream, took it as its dataset and stored it.
Took(kind, req, res) ==
    /\ req.redis = "ok"
    /\ Fetches(kind, res)
    /\ Accepted(kind, Outcome(kind, req))
    /\ Wrote(kind, res)

(***************************************************************************)
(* The shared Redis client (src/src/lib/redis.ts 9-55)                     *)
(***************************************************************************)
\* Clients createClient can hand out, and the concurrent callers of
\* getRedisClient (requests being handled).
MaxClients == 3
Callers == {"a", "b", "c"}
ClientIds == 1..MaxClients

\* redisClient = null
NoClient == 0

\* A promise is told from another by what made it: the connection attempt of a
\* client (new Promise at line 36), or Promise.resolve(client) (line 17).
NoPromise == [kind |-> "none", client |-> NoClient]
AttemptPromise(c) == [kind |-> "connect", client |-> c]
ResolvedPromise(c) == [kind |-> "resolved", client |-> c]

\* A client is unborn (not created yet), connecting (connect() pending), open,
\* closed (isOpen false after it was open) or failed (connect() rejected).
ClientStates == {"unborn", "connecting", "open", "closed", "failed"}

\* redisClient && redisClient.isOpen
ClientOpen(client, states) == client # NoClient /\ states[client] = "open"

\* AttemptInProgress without the test of connectPromise.
AttemptNeverInProgress(promise) == FALSE

\* if (connectPromise)
AttemptInProgress(promise) == promise # NoPromise

\* createClient({ url }): the next client not handed out yet.
CreateClient(states) ==
    CHOOSE c \in ClientIds :
        states[c] = "unborn" /\ \A d \in ClientIds : states[d] = "unborn" => c <= d

\* One call of getRedisClient: the promise it returns and the module variables
\* and clients after it.  The function has no await: a call runs in one piece.
GetRedisClient(client, promise, states) ==
    IF ClientOpen(client, states)
    THEN [returned |-> ResolvedPromise(client), redisClient |-> client,
          connectPromise |-> promise, clients |-> states, created |-> FALSE]
    ELSE IF AttemptInProgress(promise)
    THEN [returned |-> promise, redisClient |-> client,
          connectPromise |-> promise, clients |-> states, created |-> FALSE]
    ELSE LET c == CreateClient(states)
         IN [returned |-> AttemptPromise(c), redisClient |-> client,
             connectPromise |-> AttemptPromise(c),
             clients |-> [states EXCEPT ![c] = "connecting"], created |-> TRUE]

\* What the holder of a promise sees: Promise.resolve(client) is resolved; the
\* promise of an attempt is pending until connect() settles, then resolved
\* with the client (line 44) or rejected (line 50).
Settled(promise, states) ==
    IF promise.kind = "resolved" THEN "resolved"
    ELSE IF states[promise.client] = "connecting" THEN "pending"
    ELSE IF states[promise.client] = "failed" THEN "rejected"
    ELSE "resolved"

\* The connection attempts in flight: clients whose connect() has not settled.
InFlight(states) == {c \in ClientIds : states[c] = "connecting"}

NoCall == [called |-> FALSE]

InitClient ==
    /\ redisClient = NoClient
    /\ connectPromise = NoPromise
    /\ clients = [c \in ClientIds |-> "unborn"]
    /\ received = [p \in Callers |-> NoCall]

\* A caller calls getRedisClient().  received keeps, for the caller's latest
\* call, the promise it got, the attempts in flight when it called and whether
\* the call created a client.
CallGetRedisClient ==
    \E p \in Callers :
      /\ ClientOpen(redisClient, clients) \/ AttemptInProgress(connectPromise)
            \/ \E c \in ClientIds : clients[c] = "unborn"
      /\ LET r == GetRedisClient(redisClient, connectPromise, clients)
         IN /\ redisClient' = r.redisClient
            /\ connectPromise' = r.connectPromise
            /\ clients' = r.clients
            /\ received' = [received EXCEPT ![p] =
                               [called |-> TRUE, promise |-> r.returned,
                                inflight |-> InFlight(clients), created |-> r.created]]
      /\ UNCHANGED <<routeVars, workerVars, mintVars, sessionVars>>

\* client.connect() resolves: the .then callback (lines 38-45).
ConnectResolves ==
    \E c \in ClientIds :
      /\ clients[c] = "connecting"
      /\ redisClient' = c
      /\ connectPromise' = NoPromise
      /\ clients' = [clients EXCEPT ![c] = "open"]
      /\ UNCHANGED <<received, routeVars, workerVars, mintVars, sessionVars>>

\* ConnectRejects that leaves connectPromise as it is.
ConnectRejectsSticky ==
    \E c \in ClientIds :
      /\ clients[c] = "connecting"
      /\ redisClient' = NoClient
      /\ clients' = [clients EXCEPT ![c] = "failed"]
      /\ UNCHANGED <<connectPromise, received, routeVars, workerVars, mintVars, sessionVars>>

\* client.connect() rejects: the .catch callback (lines 46-51).
ConnectRejects ==
    \E c \in ClientIds :
      /\ clients[c] = "connecting"
      /\ connectPromise' = NoPromise
      /\ redisClient' = NoClient
      /\ clients' = [clients EXCEPT ![c] = "failed"]
      /\ UNCHANGED <<received, routeVars, workerVars, mintVars, sessionVars>>

\* The connection of the current client ends: isOpen turns false.
ConnectionCloses ==
    /\ ClientOpen(redisClient, clients)
    /\ clients' = [clients EXCEPT ![redisClient] = "closed"]
    /\ UNCHANGED <<redisClient, connectPromise, received, routeVars, workerVars, mintVars, sessionVars>>

NextClient == CallGetRedisClient \/ ConnectResolves \/ ConnectRejects \/ ConnectionCloses

(***************************************************************************)
(* The event worker (src/unnamed/part_000) and the chain it tails          *)
(***************************************************************************)
BLOCKS_PER_POLL == 500
\* The first cycle starts this many blocks below the head (line 103).
InitialLookback == 100

\* lastProcessedBlock = null; also a block number that is not there.
NoBlock == -1

\* The chain grows BlockStep blocks at a time (its first blocks may be
\* ShortStep only) up to MaxHeight, and holds at most MaxLogs logs of the
\* contract.
BlockStep == 300
ShortStep == 50
MaxHeight == 950
MaxLogs == 2

\* A log the filter of getLogs (address and event signature) lets through:
\* decodeEventLog returns the event, or throws, or the log has fewer than
\* three topics.
LogKinds == {"decodes", "throws", "short"}
ChainLog(blockNumber, kind) == [blockNumber |-> blockNumber, kind |-> kind]

\* Seed that starts at the head itself.
SeedAtHead(latestBlock) == latestBlock

\* latestBlock > 100n ? latestBlock - 100n : 0n
Seed(latestBlock) ==
    IF latestBlock > InitialLookback THEN latestBlock - InitialLookback ELSE 0

\* NeedsSeed that holds in every cycle.
NeedsSeedAlways(processed) == TRUE

\* lastProcessedBlock === null
NeedsSeed(processed) == processed = NoBlock

\* ToBlock without the cap at the latest block.
ToBlockUncapped(processed, latestBlock) == processed + BLOCKS_PER_POLL

\* lastProcessedBlock + BLOCKS_PER_POLL > latestBlock ? latestBlock : ...
ToBlock(processed, latestBlock) ==
    IF processed + BLOCKS_PER_POLL > latestBlock THEN latestBlock
    ELSE processed + BLOCKS_PER_POLL

\* NothingToDo for a watermark exactly at the head only.
NothingToDoAtHead(processed, latestBlock) == processed = latestBlock

\* lastProcessedBlock >= latestBlock
NothingToDo(processed, latestBlock) == processed >= latestBlock

\* FromBlock that starts at the watermark itself.
FromBlockInclusive(processed) == processed

\* fromBlock: lastProcessedBlock + 1n
FromBlock(processed) == processed + 1

\* client.getLogs({ address, event, fromBlock, toBlock }) when it resolves.
GetLogs(chain, fromBlock, toBlock) ==
    {l \in chain : fromBlock <= l.blockNumber /\ l.blockNumber <= toBlock}

\* The logs in the order getLogs returns them: by block number.
RECURSIVE InOrder(_)
InOrder(logs) ==
    IF logs = {} THEN <<>>
    ELSE LET first == CHOOSE l \in logs : \A m \in logs : l.blockNumber <= m.blockNumber
         IN <<first>> \o InOrder(logs \ {first})

\* One turn of the loop of processLogs: a log of fewer than three topics is
\* passed over; a log whose decoding throws is caught inside the loop (lines
\* 86-89); a decoded log reaches the place of the persistence step (line 78).
ProcessOne(done, log) ==
    [attempted |-> Append(done.attempted, log),
     surfaced |-> IF log.kind = "decodes" THEN done.surfaced \cup {log} ELSE done.surfaced,
     caught |-> IF log.kind = "throws" THEN done.caught \cup {log} ELSE done.caught,
     skipped |-> IF log.kind = "short" THEN done.skipped \cup {log} ELSE done.skipped,
     threw |-> FALSE]

NoneProcessed ==
    [attempted |-> <<>>, surfaced |-> {}, caught |-> {}, skipped |-> {}, threw |-> FALSE]

RECURSIVE ProcessFrom(_, _, _)
ProcessFrom(list, i, done) ==
    IF i > Len(list) THEN done
    ELSE ProcessFrom(list, i + 1, ProcessOne(done, list[i]))

\* The loop with the try around it: the first log that throws ends it.
RECURSIVE ProcessUntilThrow(_, _, _)
ProcessUntilThrow(list, i, done) ==
    IF i > Len(list) \/ done.caught # {} THEN done
    ELSE ProcessUntilThrow(list, i + 1, ProcessOne(done, list[i]))

\* ProcessLogs that stops at the first log whose decoding throws.
ProcessLogsUntilThrow(logs) == ProcessUntilThrow(InOrder(logs), 1, NoneProcessed)

\* processLogs (lines 50-91): every log in turn; the loop goes on after a log
\* that throws, and nothing is thrown to the caller.
ProcessLogs(logs) == ProcessFrom(InOrder(logs), 1, NoneProcessed)

\* What one cycle did: before is the watermark it started with, head the
\* answer of getBlockNumber (NoBlock: it rejected), base the watermark after
\* the seeding, fetch whether getLogs was called and for which range, logsOk
\* whether it resolved and with which logs, after the watermark at the end.
Cycle(before, head, base, fetch, toBlock, logsOk, logs, done, after) ==
    [ran |-> TRUE, before |-> before, head |-> head, base |-> base,
     fetch |-> fetch,
     fromBlock |-> IF fetch THEN FromBlock(base) ELSE NoBlock,
     toBlock |-> IF fetch THEN toBlock ELSE NoBlock,
     logsOk |-> logsOk, logs |-> logs,
     attempted |-> done.attempted,
     surfaced |-> done.surfaced, caught |-> done.caught,
     after |-> after, scheduled |-> TRUE]

NoCycle == [ran |-> FALSE]

\* pollForEvents (lines 95-144) with the answers of the chain client:
\* headAnswer is the block number or NoBlock (getBlockNumber rejects),
\* logsAnswer tells whether getLogs resolves.  The finally clause sets the
\* timer on every path.
PollForEvents(processed, headAnswer, logsAnswer, chain) ==
    IF headAnswer = NoBlock
    THEN Cycle(processed, NoBlock, processed, FALSE, NoBlock, FALSE, {}, ProcessLogs({}), processed)
    ELSE LET base == IF NeedsSeed(processed) THEN Seed(headAnswer) ELSE processed
             toBlock == ToBlock(base, headAnswer)
             logs == GetLogs(chain, FromBlock(base), toBlock)
         IN IF NothingToDo(base, headAnswer)
            THEN Cycle(processed, headAnswer, base, FALSE, NoBlock, FALSE, {},
                       ProcessLogs({}), base)
            ELSE IF ~logsAnswer
            THEN Cycle(processed, headAnswer, base, TRUE, toBlock, FALSE, {},
                       ProcessLogs({}), base)
            ELSE Cycle(processed, headAnswer, base, TRUE, toBlock, TRUE, logs,
                       ProcessLogs(logs), toBlock)

\* Reschedule that sets the timer when pollForEvents is called.
RescheduleAtCall(ended, failed) == IF ended THEN 0 ELSE 1

\* Reschedule in the try block, after line 134: not on a path that throws.
RescheduleUnlessFailed(ended, failed) == IF ended /\ ~failed THEN 1 ELSE 0

\* The timers a step of pollForEvents sets: the finally clause (lines 140-143)
\* calls setTimeout once when the call ends, whether it failed or not.
Reschedule(ended, failed) == IF ended THEN 1 ELSE 0

\* A call of pollForEvents that is under way: it awaits getBlockNumber
\* (pc "head"), or getLogs (pc "logs") with the locals it computed.
AwaitsHead == [pc |-> "head", before |-> NoBlock, head |-> NoBlock, toBlock |-> NoBlock]
AwaitsLogs(before, head, toBlock) ==
    [pc |-> "logs", before |-> before, head |-> head, toBlock |-> toBlock]

Without(list, i) == SubSeq(list, 1, i - 1) \o SubSeq(list, i + 1, Len(list))

InitWorker ==
    /\ lastProcessedBlock = NoBlock
    /\ timer = 0
    /\ started = FALSE
    /\ running = <<>>
    /\ cycle = NoCycle
    /\ height = 0
    /\ chainLogs = {}
    /\ seeded = NoBlock
    /\ surfaced = {}
    /\ windows = {}

\* The heights a node of the chain can report: the chain's, or that of a node
\* that lags behind by whole steps.
ObservedHeads == {h \in 0..height : (height - h) % BlockStep = 0}

\* pollForEvents is called and runs up to its first await (line 98).
StartCycle ==
    /\ running' = Append(running, AwaitsHead)
    /\ UNCHANGED <<lastProcessedBlock, cycle, height, chainLogs, seeded, surfaced,
                   windows, routeVars, clientVars, mintVars, sessionVars>>

\* initialize(): the first call of pollForEvents.
Initialize ==
    /\ ~started
    /\ started' = TRUE
    /\ timer' = timer + Reschedule(FALSE, FALSE)
    /\ StartCycle

\* A timer set by setTimeout(pollForEvents, POLLING_INTERVAL_MS) fires.
TimerFires ==
    /\ timer > 0
    /\ timer' = timer - 1 + Reschedule(FALSE, FALSE)
    /\ UNCHANGED started
    /\ StartCycle

\* getBlockNumber settles (lines 98-124): the call ends in the catch clause, or
\* at the return of line 114, or it seeds the watermark if there is none and
\* goes on to await getLogs.
HeadAnswers ==
    \E i \in 1..Len(running), headAnswer \in ObservedHeads \cup {NoBlock} :
      LET c == PollForEvents(lastProcessedBlock, headAnswer, FALSE, chainLogs)
      IN /\ running[i].pc = "head"
         /\ lastProcessedBlock' = c.base
         /\ seeded' = IF seeded = NoBlock THEN c.base ELSE seeded
         /\ IF c.fetch
            THEN /\ running' = [running EXCEPT ![i] =
                                  AwaitsLogs(lastProcessedBlock, headAnswer, c.toBlock)]
                 /\ timer' = timer + Reschedule(FALSE, FALSE)
                 /\ UNCHANGED cycle
            ELSE /\ running' = Without(running, i)
                 /\ timer' = timer + Reschedule(TRUE, headAnswer = NoBlock)
                 /\ cycle' = c
         /\ UNCHANGED <<started, height, chainLogs, surfaced, windows,
                        routeVars, clientVars, mintVars, sessionVars>>

\* getLogs settles (lines 119-143): rejected, the call ends in the catch
\* clause; resolved, the logs are processed and the watermark is set to the
\* toBlock the call computed.  surfaced keeps every log that reached the
\* persistence step, windows the ranges of the fetches that resolved.
LogsAnswer ==
    \E i \in 1..Len(running), logsAnswer \in BOOLEAN :
      LET a == running[i]
          c == PollForEvents(a.before, a.head, logsAnswer, chainLogs)
      IN /\ a.pc = "logs"
         /\ lastProcessedBlock' = IF logsAnswer THEN a.toBlock ELSE lastProcessedBlock
         /\ cycle' = [c EXCEPT !.after = lastProcessedBlock']
         /\ running' = Without(running, i)
         /\ timer' = timer + Reschedule(TRUE, ~logsAnswer)
         /\ surfaced' = surfaced \cup c.surfaced
         /\ windows' = IF logsAnswer
                       THEN windows \cup {[fromBlock |-> c.fromBlock, toBlock |-> c.toBlock]}
                       ELSE windows
         /\ UNCHANGED <<started, height, chainLogs, seeded, routeVars, clientVars, mintVars, sessionVars>>

\* The chain grows by BlockStep blocks; a mintAchievement call in the new top
\* block emits a log, or none does.
Mine ==
    /\ \E step \in (IF height = 0 THEN {ShortStep, BlockStep} ELSE {BlockStep}) :
         /\ height + step <= MaxHeight
         /\ height' = height + step
    /\ \/ UNCHANGED chainLogs
       \/ /\ Cardinality(chainLogs) < MaxLogs
          /\ \E kind \in LogKinds :
               chainLogs' = chainLogs \cup {ChainLog(height', kind)}
    /\ UNCHANGED <<lastProcessedBlock, timer, started, running, cycle, seeded, surfaced,
                   windows, routeVars, clientVars, mintVars, sessionVars>>

NextWorker == Initialize \/ TimerFires \/ HeadAnswers \/ LogsAnswer \/ Mine

(***************************************************************************)
(* Token ids (src/unnamed/part_002 132-145)                                *)
(***************************************************************************)
MintNames == {"A", "B"}
Accounts == {"alice", "bob"}
NoAccount == "undefined"

\* stringToBytes: the UTF-8 bytes of an achievement's API name.
StringToBytes(name) ==
    IF name = "A" THEN <<65>>
    ELSE IF name = "B" THEN <<66>>
    ELSE IF name = "AB" THEN <<65, 66>>
    ELSE <<>>

\* Uint32Bytes with no leading zero bytes.
Uint32BytesShortest(n) ==
    IF n < 256 THEN <<n>>
    ELSE IF n < 65536 THEN <<n \div 256, n % 256>>
    ELSE IF n < 16777216 THEN <<n \div 65536, (n \div 256) % 256, n % 256>>
    ELSE <<(n \div 16777216) % 256, (n \div 65536) % 256, (n \div 256) % 256, n % 256>>

\* A uint32 as encodePacked writes it: four bytes, the most significant first.
Uint32Bytes(n) ==
    <<(n \div 16777216) % 256, (n \div 65536) % 256, (n \div 256) % 256, n % 256>>

\* encodePacked(['uint32', 'string'], [appId, achievementApiName]): the four
\* bytes of appId, then the bytes of the name; it throws for a number that is
\* not in 0 .. 2^32 - 1.
EncodePacked(n, name) ==
    IF n < 0 \/ n \div 65536 >= 65536
    THEN [threw |-> TRUE, bytes |-> <<>>]
    ELSE [threw |-> FALSE, bytes |-> Uint32Bytes(n) \o StringToBytes(name)]

\* keccak256, taken as free of collisions: a hash is told from another by the
\* bytes that were hashed.
Keccak256(bytes) == [keccak |-> bytes]

\* hexToBigInt(hash): the number the 32 bytes of the hash spell.
HexToBigInt(hash) == [uint256 |-> hash.keccak]

\* GenerateTokenId that hashes the account's address along with the pair.
GenerateTokenIdPerAccount(closure, achievementApiName) ==
    LET packed == EncodePacked(closure.appId, achievementApiName)
    IN [threw |-> packed.threw,
        tokenId |-> HexToBigInt(Keccak256(packed.bytes
                       \o StringToBytes(IF closure.accountAddress = "alice" THEN "A" ELSE "B")))]

\* Step 3 of handleMint (lines 132-145), with the values the callback closes
\* over: tokenId = hexToBigInt(keccak256(encodePacked(...))), or the catch
\* clause when that throws.
GenerateTokenId(closure, achievementApiName) ==
    LET packed == EncodePacked(closure.appId, achievementApiName)
    IN [threw |-> packed.threw, tokenId |-> HexToBigInt(Keccak256(packed.bytes))]

(***************************************************************************)
(* The mint flow of the achievements page (src/unnamed/part_002 36-216)    *)
(***************************************************************************)
TARGET_CHAIN_ID == 84532

\* useChainId(): Base Sepolia or another chain.
ChainIds == {TARGET_CHAIN_ID, 1}

\* Number(params.appid): 0 stands for the values !appId holds for (no param,
\* 0, NaN), -1 for a number that is no uint32.
NoAppId == 0
PageAppIds == {NoAppId, 4, -1}

\* useAccount(): not connected, connected with an address, or reconnecting
\* (the address is known, isConnected is false).
WalletStates ==
    {[isConnected |-> FALSE, accountAddress |-> NoAccount],
     [isConnected |-> FALSE, accountAddress |-> "alice"]}
    \cup {[isConnected |-> TRUE, accountAddress |-> a] : a \in Accounts}

\* mintError: null, or the message set last.
NoError == "null"

\* The pending call of writeContract and its arguments.
NoWrite == [pending |-> FALSE]
WriteContract(to, tokenId, n, achievementApiId) ==
    [pending |-> TRUE, to |-> to, tokenId |-> tokenId, appId |-> n,
     achievementApiId |-> achievementApiId]

\* What a call of handleMint does up to its first await or its end.
Minting(status, error, awaits, call, tokens) ==
    [mintingStatus |-> status, mintError |-> error, awaits |-> awaits,
     write |-> call, derived |-> tokens]

\* HandleMint without the check of the chain (step 2).
HandleMintAnyChain(closure, status, error, achievementApiName) ==
    IF closure.appId = NoAppId
    THEN Minting(status, "App ID is missing. Cannot mint.", "none", NoWrite, {})
    ELSE IF ~closure.isConnected \/ closure.accountAddress = NoAccount
    THEN Minting(status, "Wallet not connected. Please connect to mint.", "none", NoWrite, {})
    ELSE LET generated == GenerateTokenId(closure, achievementApiName)
         IN IF generated.threw
            THEN Minting([status EXCEPT ![achievementApiName] = "error"],
                         "Failed to generate token ID.", "none", NoWrite, {})
            ELSE Minting([status EXCEPT ![achievementApiName] = "submitting"],
                         "null", "writeContract",
                         WriteContract(closure.accountAddress, generated.tokenId,
                                       closure.appId, achievementApiName),
                         {[appId |-> closure.appId, achievementApiId |-> achievementApiName,
                           account |-> closure.accountAddress,
                           tokenId |-> generated.tokenId]})

\* handleMint(achievementApiName) (lines 88-206) up to the await of
\* switchChain, the call of writeContract, or a return before them.  closure
\* holds appId, isConnected, accountAddress and chainId of the render.
HandleMint(closure, status, error, achievementApiName) ==
    IF closure.appId = NoAppId
    THEN Minting(status, "App ID is missing. Cannot mint.", "none", NoWrite, {})
    ELSE IF ~closure.isConnected \/ closure.accountAddress = NoAccount
    THEN Minting(status, "Wallet not connected. Please connect to mint.", "none", NoWrite, {})
    ELSE IF closure.chainId # TARGET_CHAIN_ID
    THEN Minting([status EXCEPT ![achievementApiName] = "switching_chain"],
                 "Wrong network. Please switch to Base Sepolia (ID: 84532).",
                 "switchChain", NoWrite, {})
    ELSE LET generated == GenerateTokenId(closure, achievementApiName)
         IN IF generated.threw
            THEN Minting([status EXCEPT ![achievementApiName] = "error"],
                         "Failed to generate token ID.", "none", NoWrite, {})
            ELSE Minting([status EXCEPT ![achievementApiName] = "submitting"],
                         NoError, "writeContract",
                         WriteContract(closure.accountAddress, generated.tokenId,
                                       closure.appId, achievementApiName),
                         {[appId |-> closure.appId, achievementApiId |-> achievementApiName,
                           account |-> closure.accountAddress,
                           tokenId |-> generated.tokenId]})

\* disabled={isWriteContractPending || mintingStatus[ach.name] === 'loading'
\*           || ... === 'submitting' || ... === 'switching_chain'} (line 302)
Disabled(call, status, name) ==
    call.pending \/ status[name] \in {"loading", "submitting", "switching_chain"}

InitMint ==
    /\ page = [opened |-> FALSE, appId |-> NoAppId, isConnected |-> FALSE,
               accountAddress |-> NoAccount, chainId |-> TARGET_CHAIN_ID]
    /\ mintingStatus = [name \in MintNames |-> "none"]
    /\ mintError = NoError
    /\ switching = {}
    /\ write = NoWrite
    /\ derived = {}

\* The page is loaded for a route: appId = params.appid ? Number(params.appid) : null.
OpenPage ==
    /\ ~page.opened
    /\ \E n \in PageAppIds : page' = [page EXCEPT !.opened = TRUE, !.appId = n]
    /\ UNCHANGED <<mintingStatus, mintError, switching, write, derived,
                   tokenVars, routeVars, clientVars, workerVars, sessionVars>>

\* The wallet connects, disconnects, changes its account or its chain.
WalletChanges ==
    /\ page.opened
    /\ \E w \in WalletStates, c \in ChainIds :
         page' = [page EXCEPT !.isConnected = w.isConnected,
                              !.accountAddress = w.accountAddress, !.chainId = c]
    /\ UNCHANGED <<mintingStatus, mintError, switching, write, derived,
                   tokenVars, routeVars, clientVars, workerVars, sessionVars>>

\* The mint button of an achievement is clicked: handleMint runs to its first
\* await or to its end.
ClickMint ==
    \E name \in MintNames :
      LET m == HandleMint(page, mintingStatus, mintError, name)
      IN /\ page.opened
         /\ ~Disabled(write, mintingStatus, name)
         /\ mintingStatus' = m.mintingStatus
         /\ mintError' = m.mintError
         /\ switching' = IF m.awaits = "switchChain" THEN switching \cup {name} ELSE switching
         /\ write' = m.write
         /\ derived' = derived \cup m.derived
         /\ UNCHANGED <<page, tokenVars, routeVars, clientVars, workerVars, sessionVars>>

\* await switchChain(...) settles (lines 110-128): resolved, the message asks
\* to click again and the status is idle; rejected, the status is error.
SwitchChainSettles ==
    \E name \in switching, resolved \in BOOLEAN :
      /\ switching' = switching \ {name}
      /\ mintingStatus' = [mintingStatus EXCEPT ![name] = IF resolved THEN "idle" ELSE "error"]
      /\ mintError' = IF resolved
                      THEN "Network switch initiated. Please click Mint again once connected to Base Sepolia."
                      ELSE "Failed to switch to Base Sepolia. Please switch manually in your wallet."
      /\ UNCHANGED <<page, write, derived, tokenVars, routeVars, clientVars, workerVars, sessionVars>>

\* onSuccess (lines 164-196): the wallet sent the transaction; the status is
\* set to submitting again.  What the transaction does to the contract is
\* MintAchievementCall.
WriteSucceeds ==
    /\ write.pending
    /\ write' = NoWrite
    /\ mintingStatus' = [mintingStatus EXCEPT ![write.achievementApiId] = "submitting"]
    /\ UNCHANGED <<page, mintError, switching, derived, tokenVars,
                   routeVars, clientVars, workerVars, sessionVars>>

\* onError (lines 197-204)
WriteFails ==
    /\ write.pending
    /\ write' = NoWrite
    /\ mintingStatus' = [mintingStatus EXCEPT ![write.achievementApiId] = "error"]
    /\ mintError' = "Minting failed: "
    /\ UNCHANGED <<page, switching, derived, tokenVars, routeVars, clientVars, workerVars, sessionVars>>

NextMint ==
    OpenPage \/ WalletChanges \/ ClickMint \/ SwitchChainSettles \/ WriteSucceeds \/ WriteFails

\* The token id is derived for any appId and name, as step 3 of handleMint
\* derives it; derived keeps up to MaxDerived of the results.
MaxDerived == 2
PackAppIds == {4, 65, 1089, 16706}
PackNames == {"", "A", "B", "AB"}

DeriveTokenId ==
    \E n \in PackAppIds, name \in PackNames :
      LET generated == GenerateTokenId([appId |-> n, accountAddress |-> "alice"], name)
      IN /\ Cardinality(derived) < MaxDerived
         /\ ~generated.threw
         /\ derived' = derived \cup {[appId |-> n, achievementApiId |-> name,
                                       account |-> "alice", tokenId |-> generated.tokenId]}
         /\ UNCHANGED <<page, mintingStatus, mintError, switching, write,
                        tokenVars, routeVars, clientVars, workerVars, sessionVars>>

(***************************************************************************)
(* AchievementNFT (src/contracts/ignition/modules/DeployAchievementNFT.ts) *)
(***************************************************************************)
MaxMints == 3
ChainAppIds == {4}

\* The token ids callers pass: those of the achievements of ChainAppIds.
TokenIds ==
    {HexToBigInt(Keccak256(EncodePacked(n, name).bytes)) : n \in ChainAppIds, name \in MintNames}

\* balanceOf(account, id) of ERC1155
BalanceOf(b, account, id) == b[<<account, id>>]

\* event AchievementMinted(owner, tokenId, appId, achievementApiId)
AchievementMinted(owner, tokenId, n, achievementApiId) ==
    [owner |-> owner, tokenId |-> tokenId, appId |-> n, achievementApiId |-> achievementApiId]

\* mintAchievement(to, tokenId, appId, achievementApiId, data) (lines 84-100):
\* reverts if to holds the token; else mints one unit to to and emits the event.
MintAchievement(b, to, tokenId, n, achievementApiId) ==
    IF BalanceOf(b, to, tokenId) # 0
    THEN [reverted |-> TRUE, balances |-> b, emitted |-> <<>>]
    ELSE [reverted |-> FALSE,
          balances |-> [b EXCEPT ![<<to, tokenId>>] = @ + 1],
          emitted |-> <<AchievementMinted(to, tokenId, n, achievementApiId)>>]

InitToken ==
    /\ balances = [h \in Accounts \X TokenIds |-> 0]
    /\ events = <<>>

\* Any account calls mintAchievement, with any arguments (the function is
\* public and looks at the balance only).
MintAchievementCall ==
    \E to \in Accounts, tokenId \in TokenIds, n \in ChainAppIds, name \in MintNames :
      LET m == MintAchievement(balances, to, tokenId, n, name)
      IN /\ Len(events) < MaxMints
         /\ balances' = m.balances
         /\ events' = events \o m.emitted
         /\ UNCHANGED <<pageVars, routeVars, clientVars, workerVars, sessionVars>>

\* safeTransferFrom(from, to, id, value, data), inherited from ERC1155, called
\* by the holder.
SafeTransferFrom ==
    \E from \in Accounts, to \in Accounts, id \in TokenIds, value \in 1..MaxMints :
      /\ from # to
      /\ BalanceOf(balances, from, id) >= value
      /\ balances' = [balances EXCEPT ![<<from, id>>] = @ - value,
                                      ![<<to, id>>] = @ + value]
      /\ UNCHANGED <<events, pageVars, routeVars, clientVars, workerVars, sessionVars>>

NextToken == MintAchievementCall \/ SafeTransferFrom

(***************************************************************************)
(* Steam OpenID callback (src/unnamed/part_004)                            *)
(***************************************************************************)

\* Strings are sequences of characters, so that includes() and the regular
\* expression are computed character by character.
Missing == <<"undefined">>
NoCookie == <<"none">>
NoErrorParam == "none"

IdRes == <<"i", "d", "_", "r", "e", "s">>
CheckidSetup == <<"c", "h", "e", "c", "k", "i", "d", "_", "s", "e", "t", "u", "p">>
OpenIdModes == {IdRes, CheckidSetup, Missing}

\* The text of Steam's answer to check_authentication, or the fetch rejects.
FetchRejects == <<"rejects">>
VerificationAnswers ==
    {FetchRejects,
     <<"n", "s", ":", "o", "\n", "i", "s", "_", "v", "a", "l", "i", "d", ":", "t", "r",
       "u", "e", "\n">>,
     <<"n", "s", ":", "o", "\n", "i", "s", "_", "v", "a", "l", "i", "d", ":", "f", "a",
       "l", "s", "e", "\n">>,
     <<"i", "s", "_", "v", "a", "l", "i", "d", ":", "t", "r", "u", "e", "l", "y">>,
     <<>>}

HttpText == <<"h", "t", "t", "p">>
ClaimedIdPath == <<":", "/", "/", "s", "t", "e", "a", "m", "c", "o", "m", "m", "u", "n",
                   "i", "t", "y", ".", "c", "o", "m", "/", "o", "p", "e", "n", "i", "d",
                   "/", "i", "d", "/">>
DigitChars == {"0", "1", "2", "3", "4", "5", "6", "7", "8", "9"}

\* The values of openid.claimed_id a request can carry.
ClaimedIds ==
    {Missing,
     <<"h", "t", "t", "p", ":", "/", "/", "s", "t", "e", "a", "m", "c", "o", "m", "m", "u",
       "n", "i", "t", "y", ".", "c", "o", "m", "/", "o", "p", "e", "n", "i", "d", "/", "i",
       "d", "/", "7", "6">>,
     <<"h", "t", "t", "p", "s", ":", "/", "/", "s", "t", "e", "a", "m", "c", "o", "m", "m",
       "u", "n", "i", "t", "y", ".", "c", "o", "m", "/", "o", "p", "e", "n", "i", "d", "/",
       "i", "d", "/", "7">>,
     <<"h", "t", "t", "p", "s", ":", "/", "/", "s", "t", "e", "a", "m", "c", "o", "m", "m",
       "u", "n", "i", "t", "y", ".", "c", "o", "m", "/", "o", "p", "e", "n", "i", "d", "/",
       "i", "d", "/">>,
     <<"h", "t", "t", "p", "s", ":", "/", "/", "s", "t", "e", "a", "m", "c", "o", "m", "m",
       "u", "n", "i", "t", "y", ".", "c", "o", "m", "/", "o", "p", "e", "n", "i", "d", "/",
       "i", "d", "/", "7", "a">>,
     <<"h", "t", "t", "p", "s", ":", "/", "/", "s", "t", "e", "a", "m", "c", "o", "m", "m",
       "u", "n", "i", "t", "y", "x", "c", "o", "m", "/", "o", "p", "e", "n", "i", "d", "/",
       "i", "d", "/", "7">>,
     <<"x", "h", "t", "t", "p", "s", ":", "/", "/", "s", "t", "e", "a", "m", "c", "o", "m",
       "m", "u", "n", "i", "t", "y", ".", "c", "o", "m", "/", "o", "p", "e", "n", "i", "d",
       "/", "i", "d", "/", "7">>,
     <<"h", "t", "t", "p", "s", ":", "/", "/", "e", "v", "i", "l", ".", "c", "o", "m", "/",
       "o", "p", "e", "n", "i", "d", "/", "i", "d", "/", "7">>}

IsValidTrue == <<"i", "s", "_", "v", "a", "l", "i", "d", ":", "t", "r", "u", "e">>

\* String.prototype.includes
Includes(text, needle) ==
    \E i \in 0..(Len(text) - Len(needle)) : SubSeq(text, i + 1, i + Len(needle)) = needle

StartsWith(text, prefix) ==
    Len(text) >= Len(prefix) /\ SubSeq(text, 1, Len(prefix)) = prefix

Drop(text, n) == SubSeq(text, n + 1, Len(text))

\* The longest run of digits a text starts with: (\d+) is greedy.
RECURSIVE LeadingDigits(_)
LeadingDigits(text) ==
    IF text # <<>> /\ Head(text) \in DigitChars
    THEN <<Head(text)>> \o LeadingDigits(Tail(text))
    ELSE <<>>

NoMatch == [matched |-> FALSE, group |-> <<>>]

\* Match of /^https?:\/\/steamcommunity\.com\/openid\/id\/(\d+)/ against the
\* start of the text; atEnd tells whether the digits must end the text.
MatchFromStart(text, atEnd) ==
    IF ~StartsWith(text, HttpText) THEN NoMatch
    ELSE LET afterHttp == Drop(text, Len(HttpText))
             afterS == IF afterHttp # <<>> /\ Head(afterHttp) = "s"
                       THEN Tail(afterHttp) ELSE afterHttp
         IN IF ~StartsWith(afterS, ClaimedIdPath) THEN NoMatch
            ELSE LET rest == Drop(afterS, Len(ClaimedIdPath))
                     digits == LeadingDigits(rest)
                 IN IF digits = <<>> \/ (atEnd /\ digits # rest) THEN NoMatch
                    ELSE [matched |-> TRUE, group |-> digits]

\* SteamIdMatch without the $ of the pattern.
SteamIdMatchUnanchored(claimedId) ==
    IF claimedId = Missing THEN NoMatch ELSE MatchFromStart(claimedId, FALSE)

\* claimedId?.match(/^https?:\/\/steamcommunity\.com\/openid\/id\/(\d+)$/)
SteamIdMatch(claimedId) ==
    IF claimedId = Missing THEN NoMatch ELSE MatchFromStart(claimedId, TRUE)

\* NextResponse.redirect to baseUrl, with an error parameter or none; cookie
\* is the value store.set gave the steamSession cookie, or NoCookie.
Redirect(error, cookie) == [location |-> "baseUrl", error |-> error, cookie |-> cookie]

\* GET of the callback route (lines 10-102).
SteamCallbackGET(mode, answer, claimedId) ==
    IF mode # IdRes THEN Redirect("InvalidCallbackMode", NoCookie)
    ELSE IF answer = FetchRejects THEN Redirect("InternalServerError", NoCookie)
    ELSE IF ~Includes(answer, IsValidTrue)
         THEN Redirect("SteamVerificationFailed", NoCookie)
    ELSE LET steamIdMatch == SteamIdMatch(claimedId)
         IN IF ~steamIdMatch.matched \/ steamIdMatch.group = <<>>
            THEN Redirect("SteamIdExtractionFailed", NoCookie)
            ELSE Redirect(NoErrorParam, steamIdMatch.group)

NoCallback == [ran |-> FALSE]

InitSession ==
    /\ jar = NoCookie
    /\ callback = NoCallback

\* A browser requests the callback URL; the cookie of the response, if any,
\* replaces the one in its jar.
SteamCallback ==
    \E mode \in OpenIdModes, answer \in VerificationAnswers, claimedId \in ClaimedIds :
      LET resp == SteamCallbackGET(mode, answer, claimedId)
      IN /\ callback' = [ran |-> TRUE, mode |-> mode, answer |-> answer,
                         claimedId |-> claimedId, resp |-> resp]
         /\ jar' = IF resp.cookie = NoCookie THEN jar ELSE resp.cookie
         /\ UNCHANGED <<routeVars, clientVars, workerVars, mintVars>>


(***************************************************************************)
(* State machine                                                           *)
(***************************************************************************)
NoLast == [served |-> FALSE]

\* fetched[k]: seconds since the value under key k was stored by a request that,
\* with the cache store working, took the payload from the upstream
\* (CACHE_TTL_SECONDS: no such value, or one that old).
\* degraded: the appIds whose last request that got as far as the rarity stage
\* found no entry under globalAch:{appId} and had the upstream answer not ok.
Init ==
    /\ cache = [k \in Keys |-> NoEntry]
    /\ fetched = [k \in Keys |-> CACHE_TTL_SECONDS]
    /\ last = NoLast
    /\ degraded = {}
    /\ InitClient
    /\ InitWorker
    /\ InitMint
    /\ InitToken
    /\ InitSession

Valid(req) == req.steamId # "" /\ req.appId # ""

Serve(req) ==
    LET res == GET(req, cache)
    IN /\ cache' = res.cache
       /\ last' = [served |-> TRUE, req |-> req, resp |-> res.resp, calls |-> res.calls,
                   data |-> res.data,
                   within |-> [k \in Kinds |->
                                 Valid(req) /\ fetched[KeyOf(k, req)] < CACHE_TTL_SECONDS],
                   retry |-> req.appId \in degraded]
       /\ degraded' =
            IF /\ Fetches("rarity", res)
               /\ req.rarity.net = "http" /\ ~Ok(req.rarity.status)
               /\ ~cache[GlobalCacheKey(req.appId)].present
            THEN degraded \cup {req.appId}
            ELSE IF \E i \in 1..Len(res.calls) : res.calls[i].kind = "rarity"
            THEN degraded \ {req.appId}
            ELSE degraded
       /\ fetched' = [k \in Keys |->
                        IF \E kind \in Kinds : KeyOf(kind, req) = k /\ Took(kind, req, res)
                        THEN 0
                        ELSE IF \E kind \in Kinds : KeyOf(kind, req) = k /\ Wrote(kind, res)
                        THEN CACHE_TTL_SECONDS
                        ELSE fetched[k]]

\* One request: the handler runs from start to end.  An upstream's answer is
\* drawn only if the handler calls that upstream.
RequestFrom(steamIds, appIds, modes, players, schemas, rarities) ==
    /\ ~last.served
    /\ UNCHANGED <<clientVars, workerVars, mintVars, sessionVars>>
    /\ \E steamId \in steamIds, appId \in appIds, apiKey \in BOOLEAN, mode \in modes :
      LET r0 == Request(steamId, appId, apiKey, mode, Unused, Unused, Unused)
      IN \E p \in IF Fetches("player", GET(r0, cache)) THEN players ELSE {Unused} :
           LET r1 == [r0 EXCEPT !.player = p]
           IN \E s \in IF Fetches("schema", GET(r1, cache)) THEN schemas ELSE {Unused} :
                LET r2 == [r1 EXCEPT !.schema = s]
                IN \E g \in IF Fetches("rarity", GET(r2, cache)) THEN rarities ELSE {Unused} :
                     Serve([r2 EXCEPT !.rarity = g])

Handle ==
    RequestFrom({"", "7"}, {"", "4"}, RedisModes,
                PlayerOutcomes, SchemaOutcomes, GlobalOutcomes)

\* The response is sent; the next request can be looked at.
Deliver ==
    /\ last.served
    /\ last' = NoLast
    /\ UNCHANGED <<cache, fetched, degraded, clientVars, workerVars, mintVars, sessionVars>>

\* TickSeconds pass: entries lose that much of their time to live and expire.
Tick ==
    /\ ~last.served
    /\ cache' = [k \in Keys |->
                   IF cache[k].present /\ cache[k].ttl > TickSeconds
                   THEN Entry(cache[k].text, cache[k].ttl - TickSeconds)
                   ELSE NoEntry]
    /\ fetched' = [k \in Keys |->
                     IF fetched[k] + TickSeconds < CACHE_TTL_SECONDS
                     THEN fetched[k] + TickSeconds ELSE CACHE_TTL_SECONDS]
    /\ UNCHANGED <<last, degraded, clientVars, workerVars, mintVars, sessionVars>>

Next == Handle \/ Deliver \/ Tick

Spec == Init /\ [][Next]_vars

(***************************************************************************)
(* The merge on its own: one request of a readable profile with a schema,  *)
(* over every player list, schema list and rarity list within the bounds,  *)
(* served without a cache connection.                                      *)
(***************************************************************************)
SeqsUpTo(S, n) == UNION {[1..k -> S] : k \in 0..n}

PlayerLists ==
    {l \in SeqsUpTo({e \in PlayerAchievement : e.unlocktime = e.achieved * UnlockTime},
                    MaxPlayerLen) :
        \A i, j \in 1..Len(l) : i # j => l[i].apiname # l[j].apiname}

SchemaLists ==
    {l \in SeqsUpTo(AchievementSchema, MaxSchemaLen) :
        \A i, j \in 1..Len(l) : i # j => l[i].name # l[j].name}

\* Rarity lists name "A" and "B" only, each at most once.
GlobalLists ==
    {l \in SeqsUpTo({e \in GlobalAchievementPercentage :
                        e.name # "C" /\ e.percent # Str(80)}, 2) :
        \A i, j \in 1..Len(l) : i # j => l[i].name # l[j].name}

HandleMerge ==
    RequestFrom({"7"}, {"4"}, {"connectFail"},
                {Http(200, Parsed(PlayerStatsResponse(TRUE, "", TRUE, l))) : l \in PlayerLists},
                {Http(200, Parsed(SchemaResponse(TRUE, l))) : l \in SchemaLists},
                {Http(st, Unparseable) : st \in {500}}
                \cup {Http(200, Parsed(GlobalPercentagesResponse(TRUE, l))) : l \in GlobalLists})

NextMerge == HandleMerge \/ Deliver

SpecMerge == Init /\ [][NextMerge]_vars

\* The shared client on its own, and the worker on its own.
\* Requests of two identities for two games.  The player upstream answers
\* with the account's own state of the game: account 7 has unlocked A in game
\* 4 and B in game 5, account 8 both in game 4 and none in game 5.
PlayerOf(steamId, appId) ==
    LET a == IF steamId = "7" THEN (IF appId = "4" THEN 1 ELSE 0)
             ELSE (IF appId = "4" THEN 1 ELSE 0)
        b == IF steamId = "7" THEN (IF appId = "4" THEN 0 ELSE 1)
             ELSE (IF appId = "4" THEN 1 ELSE 0)
    IN PlayerStatsResponse(TRUE, "", TRUE,
          <<[apiname |-> "A", achieved |-> a, unlocktime |-> a * UnlockTime],
            [apiname |-> "B", achieved |-> b, unlocktime |-> b * UnlockTime]>>)

HandleIdentity ==
    \E steamId \in SteamIds \ {""}, appId \in AppIds \ {""} :
      RequestFrom({steamId}, {appId}, {"ok", "connectFail"},
                  {Http(200, Parsed(PlayerOf(steamId, appId)))},
                  {Http(500, Unparseable),
                   Http(200, Parsed(SchemaResponse(TRUE, <<[name |-> "A"], [name |-> "B"]>>)))},
                  {Throw, Http(200, Parsed(GlobalPercentagesResponse(TRUE, <<>>)))})

NextIdentity == HandleIdentity \/ Deliver

SpecIdentity == Init /\ [][NextIdentity]_vars

\* The worker with a live event loop: a timer that is set fires, and a chain
\* query that was sent settles (resolved or rejected).
SpecWorkerLive ==
    /\ Init /\ [][NextWorker]_vars
    /\ WF_vars(Initialize) /\ WF_vars(TimerFires)
    /\ WF_vars(HeadAnswers) /\ WF_vars(LogsAnswer)

SpecSession == Init /\ [][SteamCallback]_vars

SpecClient == Init /\ [][NextClient]_vars

SpecWorker == Init /\ [][NextWorker]_vars

SpecMint == Init /\ [][NextMint]_vars

SpecToken == Init /\ [][NextToken]_vars

\* The wallet settles a pending writeContract, and switchChain settles.
SpecMintLive ==
    Init /\ [][NextMint]_vars
         /\ WF_vars(WriteSucceeds \/ WriteFails) /\ WF_vars(SwitchChainSettles)

SpecPack == Init /\ [][DeriveTokenId]_vars

(***************************************************************************)
(* Properties                                                              *)
(***************************************************************************)
EmptyStore == [k \in Keys |-> NoEntry]

\* The request being answered called the upstream of this kind.
Called(kind) == last.served /\ Fetches(kind, last)

\* The events of the request being answered that touch this kind.
Touches(kind) == \E i \in 1..Len(last.calls) : last.calls[i].kind = kind

\* A player body that reports failure and says why.
IsReport(j) ==
    /\ j.t = "obj" /\ j.playerstats.has
    /\ ~j.playerstats.success /\ j.playerstats.message # ""

IsReadable(j) == j.t = "obj" /\ j.playerstats.has /\ j.playerstats.success

HasList(j) == j.t = "obj" /\ j.game.has /\ j.game.hasAchievements

\* The answers an upstream may give where the request did not call it.
Answers(o, outcomes) == IF o = Unused THEN outcomes ELSE {o}

\* C1: a request served while the cache store fails on every operation
\* (connect rejected, or every get and set throwing) gets the status and body
\* that the same request, with the same upstream answers, gets from a working,
\* empty cache.
CacheUnavailableDegradation ==
    (last.served /\ last.req.redis \in {"connectFail", "opsFail"})
    => \A p \in Answers(last.req.player, PlayerOutcomes),
          s \in Answers(last.req.schema, SchemaOutcomes),
          g \in Answers(last.req.rarity, GlobalOutcomes) :
         last.resp = GET([last.req EXCEPT !.redis = "ok", !.player = p,
                                          !.schema = s, !.rarity = g],
                         EmptyStore).resp

\* C1 witness: every get and set throws on a store that holds entries, and the
\* request is answered 200.
CacheUnavailableWitness ==
    /\ last.served
    /\ last.req.redis = "opsFail"
    /\ last.resp.status = 200
    /\ \A kind \in Kinds : cache[KeyOf(kind, last.req)].present

\* C2: with the cache store working, a request that starts less than
\* CACHE_TTL_SECONDS after a request fetched a payload for one of its keys from
\* the upstream and stored it does not call that upstream.
CacheRoundTrip ==
    (last.served /\ last.req.redis = "ok")
    => \A kind \in Kinds : last.within[kind] => ~Fetches(kind, last)

\* C2 witness: all three payloads were fetched TickSeconds ago and the request
\* is answered 200.
CacheRoundTripWitness ==
    /\ last.served
    /\ last.req.redis = "ok"
    /\ last.resp.status = 200
    /\ \A kind \in Kinds :
         last.within[kind] /\ fetched[KeyOf(kind, last.req)] = TickSeconds

CountName(list, n) == Cardinality({i \in 1..Len(list) : list[i].name = n})

\* C3: a 200 response lists every definition of the resolved schema exactly
\* once: same length, and each name as often as the schema has it.
MergedListComplete ==
    (last.served /\ last.resp.status = 200)
    => /\ Len(last.resp.achievements) = Len(last.data.schema.game.achievements)
       /\ \A n \in Names :
            CountName(last.resp.achievements, n)
              = CountName(last.data.schema.game.achievements, n)

\* C3 witness: a 200 response for a schema of two definitions, with a player
\* entry and a rarity entry named outside the schema.
MergedListWitness ==
    /\ last.served
    /\ last.resp.status = 200
    /\ Len(last.data.schema.game.achievements) = 2
    /\ \E e \in 1..Len(last.data.player.playerstats.achievements) :
         CountName(last.data.schema.game.achievements,
                   last.data.player.playerstats.achievements[e].apiname) = 0
    /\ \E e \in 1..Len(last.data.rarity.achievementpercentages.achievements) :
         CountName(last.data.schema.game.achievements,
                   last.data.rarity.achievementpercentages.achievements[e].name) = 0

\* C4: in a 200 response, for adjacent a, b: achieved(a) >= achieved(b), and
\* when they are equal the returned percent(a) <= percent(b).
SortOrder ==
    (last.served /\ last.resp.status = 200)
    => \A i \in 1..(Len(last.resp.achievements) - 1) :
         LET a == last.resp.achievements[i]
             b == last.resp.achievements[i + 1]
         IN /\ a.achieved \/ ~b.achieved
            /\ (a.achieved = b.achieved) => a.percent.v <= b.percent.v

\* C5: in a 200 response every schema definition d has achieved = (the player
\* payload has an entry d.name with achieved = 1), unlocktime = that entry's or
\* 0, percent = the rarity payload's value for d.name or 100.
JoinSemantics ==
    (last.served /\ last.resp.status = 200)
    => LET defs == last.data.schema.game.achievements
           states == last.data.player.playerstats.achievements
           rarity == IF last.data.rarity.t = "obj"
                        /\ last.data.rarity.achievementpercentages.has
                     THEN last.data.rarity.achievementpercentages.achievements
                     ELSE <<>>
       IN \A d \in 1..Len(defs) :
            \E c \in 1..Len(last.resp.achievements) :
              LET a == last.resp.achievements[c]
              IN /\ a.name = defs[d].name
                 /\ a.achieved = (\E e \in 1..Len(states) :
                                    states[e].apiname = a.name /\ states[e].achieved = 1)
                 /\ \/ \E e \in 1..Len(states) :
                         states[e].apiname = a.name /\ a.unlocktime = states[e].unlocktime
                    \/ /\ \A e \in 1..Len(states) : states[e].apiname # a.name
                       /\ a.unlocktime = 0
                 /\ \/ \E e \in 1..Len(rarity) :
                         rarity[e].name = a.name /\ a.percent = rarity[e].percent
                    \/ /\ \A e \in 1..Len(rarity) : rarity[e].name # a.name
                       /\ a.percent = Num(100)

\* C5 witness: a 200 response with a definition whose player entry is locked
\* (achieved = 0) and has a rarity, and one with no entry and no rarity.
JoinWitness ==
    /\ last.served
    /\ last.resp.status = 200
    /\ \E c \in 1..Len(last.resp.achievements) :
         /\ ~last.resp.achievements[c].achieved
         /\ \E e \in 1..Len(last.data.player.playerstats.achievements) :
              last.data.player.playerstats.achievements[e].apiname
                = last.resp.achievements[c].name
         /\ last.resp.achievements[c].percent = Num(40)
    /\ \E c \in 1..Len(last.resp.achievements) :
         /\ \A e \in 1..Len(last.data.player.playerstats.achievements) :
              last.data.player.playerstats.achievements[e].apiname
                # last.resp.achievements[c].name
         /\ last.resp.achievements[c].unlocktime = 0
         /\ last.resp.achievements[c].percent = Num(100)

\* The rarity fetch failed: transport error, status not ok, body that is no
\* JSON, or body without achievementpercentages.achievements.
RarityFailed(o) ==
    \/ o.net = "throw"
    \/ /\ o.net = "http"
       /\ \/ ~Ok(o.status)
          \/ ~o.body.parse
          \/ o.body.json.t # "obj"
          \/ ~o.body.json.achievementpercentages.has

\* C6: when the rarity upstream is called (steps 1 and 2 succeeded) and fails
\* in any way, the request is answered 200 with every percent 100.
RarityFailsSoft ==
    (Called("rarity") /\ RarityFailed(last.req.rarity))
    => /\ last.resp.status = 200
       /\ \A c \in 1..Len(last.resp.achievements) :
            last.resp.achievements[c].percent = Num(100)

\* C7: a player payload that reports failure with a reason, on a response that
\* is ok or not, ends the request with 404 and that reason.
ProfileUnreadableIs404 ==
    /\ (/\ Called("player")
        /\ last.req.player.net = "http"
        /\ last.req.player.body.parse
        /\ IsReport(last.req.player.body.json))
       => /\ last.resp.status = 404
          /\ last.resp.message = last.req.player.body.json.playerstats.message
    /\ (last.served /\ IsReport(last.data.player)) => last.resp.status = 404

\* C7 witness: the upstream answers 500 with a failure report and the request
\* ends 404.
ProfileUnreadableWitness ==
    /\ Called("player")
    /\ last.req.player.net = "http"
    /\ last.req.player.status = 500
    /\ last.req.player.body.parse
    /\ IsReport(last.req.player.body.json)
    /\ last.resp.status = 404

\* The player upstream answered not ok and without a failure report.
PlayerHttpFailure ==
    /\ Called("player")
    /\ last.req.player.net = "http"
    /\ ~Ok(last.req.player.status)
    /\ ~(last.req.player.body.parse /\ IsReport(last.req.player.body.json))

SchemaHttpFailure ==
    /\ Called("schema")
    /\ last.req.schema.net = "http"
    /\ ~Ok(last.req.schema.status)

\* C8 as stated: every response has status 200, 400, 404 or 500.
StatusSet == last.served => last.resp.status \in {200, 400, 404, 500}

\* The status that answers an upstream response that is not ok: the upstream's
\* own, or 500 when a response with a body cannot carry it.
Surfaced(status) == IF status = 304 THEN 500 ELSE status

\* C8 amended: a response that is not ok from the player upstream (without a
\* failure report) or from the schema upstream is answered with that
\* upstream's status (500 for a 304); every other response has status 200,
\* 400, 404 or 500.
StatusSetOrUpstream ==
    /\ PlayerHttpFailure => last.resp.status = Surfaced(last.req.player.status)
    /\ SchemaHttpFailure => last.resp.status = Surfaced(last.req.schema.status)
    /\ (last.served /\ ~PlayerHttpFailure /\ ~SchemaHttpFailure)
       => last.resp.status \in {200, 400, 404, 500}

\* C8 witness: the schema upstream answers 403 and so does the request.
StatusWitness ==
    /\ SchemaHttpFailure
    /\ last.req.schema.status = 403
    /\ last.resp.status = 403

\* C9: a resolved schema payload without game.availableGameStats.achievements
\* ends the request with 500 and no achievements list.
MalformedSchemaFatal ==
    /\ (last.served /\ last.data.schema # JUndefined /\ ~HasList(last.data.schema))
       => last.resp.status = 500 /\ last.resp.t = "error"
    /\ (/\ Called("schema")
        /\ last.req.schema.net = "http"
        /\ Ok(last.req.schema.status)
        /\ last.req.schema.body.parse
        /\ ~HasList(last.req.schema.body.json))
       => last.resp.status = 500 /\ last.resp.t = "error"

\* C9 witness: the schema upstream answers 200 with a game that has no
\* availableGameStats and the request ends 500.
MalformedSchemaWitness ==
    /\ Called("schema")
    /\ last.req.schema = Http(200, Parsed(SchemaResponse(FALSE, <<>>)))
    /\ last.resp.status = 500

Rank(kind) ==
    IF kind = "redis" THEN 0
    ELSE IF kind = "player" THEN 1
    ELSE IF kind = "schema" THEN 2 ELSE 3

\* C10: the I/O of a request runs player, then schema, then rarity; when
\* step 1 does not yield a readable player payload nothing is read or fetched
\* for schema or rarity, and when step 2 does not yield a schema with its list
\* nothing is read or fetched for rarity.
ShortCircuitOrder ==
    last.served
    => /\ \A i, j \in 1..Len(last.calls) :
            i < j => Rank(last.calls[i].kind) <= Rank(last.calls[j].kind)
       /\ ~IsReadable(last.data.player) => ~Touches("schema") /\ ~Touches("rarity")
       /\ ~HasList(last.data.schema) => ~Touches("rarity")
       /\ (last.calls # <<>> /\ IsReadable(last.data.player)) => Touches("schema")
       /\ HasList(last.data.schema) => Touches("rarity")

\* C10 witness: the player upstream answers 200 with success false while the
\* store holds the schema; the request ends 404 after the player fetch.
ShortCircuitWitness ==
    /\ Called("player")
    /\ last.req.player.net = "http"
    /\ Ok(last.req.player.status)
    /\ last.resp.status = 404
    /\ cache[SchemaCacheKey(last.req.appId)].present
    /\ last.calls[Len(last.calls)].kind = "player"

HasPercentages(j) == j.t = "obj" /\ j.achievementpercentages.has

\* C11: every entry of the cache store holds a successful, well-formed
\* upstream result: under a playerAch key a payload with playerstats.success,
\* under a schema key one with the achievements list, under a globalAch key
\* one with achievementpercentages.achievements.
OnlyGoodPayloadsCached ==
    \A a \in AppIds \ {""} :
      /\ \A s \in SteamIds \ {""} :
           cache[PlayerCacheKey(s, a)].present
           => IsReadable(JSONparse(cache[PlayerCacheKey(s, a)].text))
      /\ cache[SchemaCacheKey(a)].present
         => HasList(JSONparse(cache[SchemaCacheKey(a)].text))
      /\ cache[GlobalCacheKey(a)].present
         => HasPercentages(JSONparse(cache[GlobalCacheKey(a)].text))

\* C12: every redis.set of a request names the request's own key of the
\* dataset it belongs to (playerAch:{steamId}:{appId}, schema:{appId},
\* globalAch:{appId}); the entry it leaves holds the upstream's payload, not
\* the merged list, with 3600 seconds to live; no other entry changes.
CacheKeyDiscipline ==
    [][(~last.served /\ last'.served)
       => LET req == last'.req
              key == [k \in Kinds |->
                        IF k = "player"
                        THEN "playerAch:" \o req.steamId \o ":" \o req.appId
                        ELSE IF k = "schema" THEN "schema:" \o req.appId
                        ELSE "globalAch:" \o req.appId]
          IN /\ \A i \in 1..Len(last'.calls) :
                  last'.calls[i].op = "set"
                  => /\ last'.calls[i].kind \in Kinds
                     /\ last'.calls[i].key = key[last'.calls[i].kind]
                     /\ last'.calls[i].ok
                        => cache'[last'.calls[i].key]
                             = [present |-> TRUE,
                                text |-> [json |->
                                   Outcome(last'.calls[i].kind, req).body.json],
                                ttl |-> 3600]
             /\ \A k \in Keys :
                  cache'[k] # cache[k]
                  => \E kind \in Kinds : k = key[kind] /\ Wrote(kind, last')]_vars

\* C12 witness: a request answered 200 that stored all three payloads.
CacheKeyWitness ==
    /\ last.served
    /\ last.resp.status = 200
    /\ \A kind \in Kinds : Wrote(kind, last)
    /\ Len(last.resp.achievements) = 2

\* The rarity upstream was called and answered with a status that is not ok.
RarityNotOk ==
    /\ Called("rarity")
    /\ last.req.rarity.net = "http"
    /\ ~Ok(last.req.rarity.status)

\* C13: a request whose rarity upstream answers not ok is answered 200 from an
\* empty rarity list and makes no redis.set for globalAch:{appId}; the next
\* request for that appId that gets as far as the rarity stage calls the
\* upstream again.
DegradedRarityNotCached ==
    /\ RarityNotOk
       => /\ last.resp.status = 200
          /\ last.data.rarity.achievementpercentages.achievements = <<>>
          /\ \A c \in 1..Len(last.resp.achievements) :
               last.resp.achievements[c].percent = Num(100)
          /\ \A i \in 1..Len(last.calls) :
               ~(last.calls[i].op = "set" /\ last.calls[i].kind = "rarity")
    /\ (last.served /\ last.retry /\ Touches("rarity")) => Fetches("rarity", last)

\* C13 witness: the request after a degraded one, served with a working
\* store, calls the rarity upstream and answers with the percentages it got.
DegradedRarityWitness ==
    /\ last.served
    /\ last.retry
    /\ last.req.redis = "ok"
    /\ Fetches("rarity", last)
    /\ last.resp.status = 200
    /\ \E c \in 1..Len(last.resp.achievements) :
         last.resp.achievements[c].percent = Num(40)

\* C14: at most one connection attempt is in flight; a call of getRedisClient
\* made while one is in flight gets the promise of that attempt and creates
\* no client.
SingleInFlightConnect ==
    /\ Cardinality(InFlight(clients)) <= 1
    /\ \A p \in Callers :
         (received[p].called /\ received[p].inflight # {})
         => /\ \E c \in received[p].inflight :
                 received[p].promise = [kind |-> "connect", client |-> c]
            /\ ~received[p].created

\* C14 witness: three callers hold the promise of the second client's
\* attempt, made after the first client's connection ended; two of them
\* called while the attempt was in flight.
SingleInFlightWitness ==
    /\ clients[1] = "closed"
    /\ clients[2] = "connecting"
    /\ \A p \in Callers :
         received[p].called /\ received[p].promise = [kind |-> "connect", client |-> 2]
    /\ Cardinality({p \in Callers : received[p].inflight = {2}}) = 2

\* C15: a request without a session identity or without an appId is answered
\* 400 and makes no cache connection, cache read, cache write or upstream
\* call; the cache store is as it was.
ValidationPrecedesIO ==
    [][(~last.served /\ last'.served
        /\ (last'.req.steamId = "" \/ last'.req.appId = ""))
       => /\ last'.resp.status = 400
          /\ last'.calls = <<>>
          /\ cache' = cache]_vars

\* C15 witness: a request with a session identity and no appId, with the API
\* key set and a working store that holds all three entries, is answered 400.
ValidationWitness ==
    /\ last.served
    /\ last.req.steamId = "7" /\ last.req.appId = ""
    /\ last.req.apiKey /\ last.req.redis = "ok"
    /\ last.resp.status = 400
    /\ \A kind \in Kinds : cache[KeyOf(kind, [steamId |-> "7", appId |-> "4"])].present

\* C16: once the watermark is seeded, no step lowers it or unsets it, whatever
\* the chain queries answer and whichever head is observed.
WatermarkMonotonic ==
    [][lastProcessedBlock # NoBlock
       => /\ lastProcessedBlock' # NoBlock
          /\ lastProcessedBlock' >= lastProcessedBlock]_vars

\* C16 witness: after a cycle that advanced the watermark, a cycle observes a
\* head below the watermark and leaves the watermark where it was.
WatermarkWitness ==
    /\ cycle.ran
    /\ seeded # NoBlock /\ cycle.before > seeded
    /\ cycle.head # NoBlock /\ cycle.head < cycle.before
    /\ lastProcessedBlock = cycle.before

\* A step of the cycle failed: the head query, the log fetch, or the decoding
\* of a log of the window.
CycleFailed ==
    \/ cycle.head = NoBlock
    \/ cycle.fetch /\ ~cycle.logsOk
    \/ cycle.caught # {}

\* C17: a cycle in which a step failed (head query, log fetch, decoding or
\* processing of a log) leaves the watermark at its value; a cycle moves the
\* watermark only to the upper bound of its window and only if no step failed.
NoAdvanceOnFailure ==
    cycle.ran
    => /\ CycleFailed => cycle.after = cycle.base
       /\ cycle.after # cycle.base
          => cycle.after = cycle.toBlock /\ cycle.logsOk /\ ~CycleFailed

\* C18: every log of the contract in a block above the seed and at or below
\* the watermark has reached the persistence step.
AtLeastOnceDelivery ==
    \A l \in chainLogs :
        (seeded # NoBlock /\ seeded < l.blockNumber /\ l.blockNumber <= lastProcessedBlock)
        => l \in surfaced

\* C19: a log fetch covers [watermark + 1, min(watermark + 500, head)] for the
\* head read in the same cycle: at least one block, at most 500, none past
\* the head.
BoundedWindow ==
    (cycle.ran /\ cycle.fetch)
    => /\ cycle.fromBlock = cycle.base + 1
       /\ cycle.toBlock = (IF cycle.base + 500 < cycle.head
                           THEN cycle.base + 500 ELSE cycle.head)
       /\ cycle.fromBlock <= cycle.toBlock
       /\ cycle.toBlock - cycle.fromBlock + 1 <= 500
       /\ cycle.toBlock <= cycle.head

\* C19 witness: a fetch of a full window of 500 blocks that ends below the
\* head, by a watermark that was seeded in an earlier cycle.
BoundedWindowWitness ==
    /\ cycle.ran /\ cycle.fetch
    /\ cycle.before # NoBlock
    /\ cycle.toBlock = cycle.before + 500
    /\ cycle.toBlock < cycle.head

\* C20: a cycle that starts with the watermark at or above the head it reads
\* calls no getLogs, leaves the watermark as it is and sets the timer for the
\* next cycle.
EmptyWindowSkips ==
    (cycle.ran /\ cycle.head # NoBlock /\ cycle.base >= cycle.head)
    => /\ ~cycle.fetch
       /\ lastProcessedBlock = cycle.base
       /\ cycle.before # NoBlock => lastProcessedBlock = cycle.before
       /\ cycle.scheduled /\ timer + Len(running) = 1

\* C20 witness: a cycle that finds the head below a watermark it had advanced
\* to, with logs on the chain above that head.
EmptyWindowWitness ==
    /\ cycle.ran
    /\ cycle.before # NoBlock
    /\ cycle.head # NoBlock /\ cycle.head < cycle.before
    /\ ~cycle.fetch
    /\ timer = 1
    /\ \E l \in chainLogs : l.blockNumber > cycle.head

\* A step in which a call of pollForEvents ends.
CallEnds == Len(running') < Len(running)

\* A step in which pollForEvents is called.
CallStarts == Len(running') > Len(running)

\* C21: once the worker is started there is always exactly one of a running
\* cycle and a pending timer, never two timers; the step that ends a cycle,
\* failed or not, leaves exactly one timer pending.
UnconditionalReschedule ==
    [][/\ started' => timer' + Len(running') = 1
       /\ CallEnds => timer' = 1 /\ timer = 0]_vars

\* C21 witness: a cycle whose log fetch was rejected has ended and its timer
\* is pending.
RescheduleWitness ==
    /\ cycle.ran /\ cycle.fetch /\ ~cycle.logsOk
    /\ running = <<>> /\ timer = 1

\* C22: at most one call of pollForEvents is under way, and one starts only
\* when none is: the previous one has ended.
CyclesNeverOverlap ==
    [][/\ Len(running') <= 1
       /\ CallStarts => running = <<>> /\ (cycle.ran \/ ~started)]_vars

\* C22 witness: a later cycle awaits getLogs while the chain has grown past
\* the head it read, and no timer is pending.
NeverOverlapWitness ==
    /\ cycle.ran
    /\ Len(running) = 1 /\ running[1].pc = "logs"
    /\ running[1].head < height
    /\ timer = 0

\* C23: the watermark gets a value from none only in a step that answers a
\* head h, and the value is h - 100, or 0 if h <= 100; a head query that fails
\* leaves it without a value; once it has one it changes only to the upper
\* bound of a fetch that resolved.
ColdStartSeeding ==
    [][/\ (lastProcessedBlock = NoBlock /\ lastProcessedBlock' # NoBlock)
          => \E h \in ObservedHeads :
               /\ lastProcessedBlock' = (IF h > 100 THEN h - 100 ELSE 0)
               /\ \/ cycle' # cycle /\ cycle'.head = h
                  \/ \E i \in 1..Len(running') : running'[i].head = h
       /\ (lastProcessedBlock = NoBlock /\ cycle' # cycle /\ cycle'.head = NoBlock)
          => lastProcessedBlock' = NoBlock
       /\ (lastProcessedBlock # NoBlock /\ lastProcessedBlock' # lastProcessedBlock)
          => /\ cycle' # cycle /\ cycle'.logsOk
             /\ lastProcessedBlock' = cycle'.toBlock]_vars

\* C23 witness: the first cycle seeded the watermark above 0 and its fetch
\* failed; a later cycle read a head that would seed another value and kept
\* the watermark.
ColdStartWitness ==
    /\ cycle.ran
    /\ seeded > 0 /\ cycle.before = seeded /\ cycle.base = seeded
    /\ cycle.head # NoBlock /\ Seed(cycle.head) # seeded
    /\ windows = {}

Position(list, x) == {i \in 1..Len(list) : list[i] = x}

\* C29: the logs a fetch returned are each attempted once, by block number;
\* a log whose decoding throws does not keep the others from being decoded
\* and handed on.
PerLogIsolation ==
    (cycle.ran /\ cycle.logsOk)
    => /\ Len(cycle.attempted) = Cardinality(cycle.logs)
       /\ \A l \in cycle.logs : Cardinality(Position(cycle.attempted, l)) = 1
       /\ \A i, j \in 1..Len(cycle.attempted) :
            i < j => cycle.attempted[i].blockNumber <= cycle.attempted[j].blockNumber
       /\ cycle.surfaced = {l \in cycle.logs : l.kind = "decodes"}
       /\ cycle.surfaced \subseteq surfaced

\* C29 witness: a window whose first log throws in decoding and whose second
\* log is decoded and handed on.
PerLogWitness ==
    /\ cycle.ran /\ cycle.logsOk
    /\ Len(cycle.attempted) = 2
    /\ cycle.attempted[1].kind = "throws"
    /\ cycle.attempted[2].kind = "decodes"
    /\ cycle.attempted[2] \in surfaced

RECURSIVE Blocks(_)
Blocks(ws) ==
    IF ws = {} THEN 0
    ELSE LET w == CHOOSE x \in ws : TRUE
         IN (w.toBlock - w.fromBlock + 1) + Blocks(ws \ {w})

\* C30: the windows of the fetches that resolved are pairwise disjoint and
\* together are the blocks above the seed up to the watermark.
ContiguousCoverage ==
    /\ seeded = NoBlock => windows = {}
    /\ \A w \in windows :
         seeded < w.fromBlock /\ w.fromBlock <= w.toBlock /\ w.toBlock <= lastProcessedBlock
    /\ \A v, w \in windows : v # w => (v.toBlock < w.fromBlock \/ w.toBlock < v.fromBlock)
    /\ seeded # NoBlock => Blocks(windows) = lastProcessedBlock - seeded

\* C30 witness: three windows fetched, and a fetch that failed since.
CoverageWitness ==
    /\ Cardinality(windows) >= 3
    /\ cycle.ran /\ cycle.fetch /\ ~cycle.logsOk

\* The place of the definition named n in the schema's list.
SchemaPlace(n) ==
    CHOOSE d \in 1..Len(last.data.schema.game.achievements) :
        last.data.schema.game.achievements[d].name = n

\* C26: in a 200 response two achievements with the same achieved flag and
\* the same percent stand in schema order; when the rarity list is empty or
\* missing every percent is 100 and the response is the achieved ones in schema
\* order, then the unachieved ones in schema order.
StableTieBreak ==
    (last.served /\ last.resp.status = 200)
    => LET out == last.resp.achievements
           noRarity == \/ ~HasPercentages(last.data.rarity)
                       \/ last.data.rarity.achievementpercentages.achievements = <<>>
       IN /\ \A i, j \in 1..Len(out) :
               (i < j /\ out[i].achieved = out[j].achieved /\ out[i].percent = out[j].percent)
               => SchemaPlace(out[i].name) < SchemaPlace(out[j].name)
          /\ noRarity
             => /\ \A i \in 1..Len(out) : out[i].percent = Num(100)
                /\ \A i, j \in 1..Len(out) :
                     i < j => \/ out[i].achieved /\ ~out[j].achieved
                              \/ /\ out[i].achieved = out[j].achieved
                                 /\ SchemaPlace(out[i].name) < SchemaPlace(out[j].name)

\* C26 witness: two achieved achievements with the same percent of the rarity
\* list, which names them in the order opposite to the schema's.
StableTieWitness ==
    /\ last.served /\ last.resp.status = 200
    /\ Len(last.resp.achievements) = 2
    /\ last.resp.achievements[1].achieved /\ last.resp.achievements[2].achieved
    /\ last.resp.achievements[1].percent = Num(40)
    /\ last.resp.achievements[2].percent = Num(40)
    /\ HasPercentages(last.data.rarity)
    /\ Len(last.data.rarity.achievementpercentages.achievements) = 2
    /\ last.data.rarity.achievementpercentages.achievements[1].name
         = last.resp.achievements[2].name

\* C27: a request issues only get and set to the cache store; it removes no
\* entry; and an entry that was there when the request read its key is not
\* written by that request.
TTLOnlyEviction ==
    [][(~last.served /\ last'.served)
       => /\ \A i \in 1..Len(last'.calls) :
               last'.calls[i].kind \in Kinds
               => last'.calls[i].op \in {"get", "set", "fetch"}
          /\ \A k \in Keys : cache[k].present => cache'[k].present
          /\ \A k \in Keys :
               (cache[k].present
                /\ \E i \in 1..Len(last'.calls) :
                     /\ last'.calls[i].op = "get"
                     /\ last'.calls[i].key = k
                     /\ last'.calls[i].ok)
               => /\ cache'[k] = cache[k]
                  /\ \A i \in 1..Len(last'.calls) :
                       ~(last'.calls[i].op = "set" /\ last'.calls[i].key = k)]_vars

\* C28: when a connection attempt fails, the callers that hold its promise
\* see a rejection and connectPromise and redisClient are cleared; a call made
\* with no open client and no attempt in flight creates a client and returns
\* the promise of its attempt; a call made while the client is open returns
\* that client and creates none.
ConnectFailureNotSticky ==
    [][/\ \A c \in ClientIds :
            (clients[c] = "connecting" /\ clients'[c] = "failed")
            => /\ connectPromise' = NoPromise
               /\ redisClient' = NoClient
               /\ \A p \in Callers :
                    (received[p].called
                     /\ received[p].promise = [kind |-> "connect", client |-> c])
                    => Settled(received'[p].promise, clients') = "rejected"
       /\ \A p \in Callers :
            received'[p] # received[p]
            => /\ (InFlight(clients) = {} /\ ~(redisClient # NoClient
                                               /\ clients[redisClient] = "open"))
                  => /\ received'[p].created
                     /\ received'[p].promise.kind = "connect"
                     /\ clients[received'[p].promise.client] = "unborn"
                     /\ clients'[received'[p].promise.client] = "connecting"
               /\ (redisClient # NoClient /\ clients[redisClient] = "open")
                  => /\ received'[p].promise = [kind |-> "resolved", client |-> redisClient]
                     /\ ~received'[p].created
                     /\ clients' = clients]_vars

\* C28 witness: the first attempt failed and its caller holds a rejected
\* promise; the next caller started the attempt of a second client, which is
\* open now, and a third caller got that client.
NotStickyWitness ==
    /\ clients[1] = "failed" /\ clients[2] = "open"
    /\ received["a"].called /\ received["a"].promise = [kind |-> "connect", client |-> 1]
    /\ Settled(received["a"].promise, clients) = "rejected"
    /\ received["b"].called /\ received["b"].promise = [kind |-> "connect", client |-> 2]
    /\ received["b"].created
    /\ received["c"].called /\ received["c"].promise = [kind |-> "resolved", client |-> 2]

\* C24: the token ids handleMint derived for the same appId and achievement
\* are the same, whichever account was connected and whatever the statuses
\* were.
TokenIdDeterminism ==
    \A d, e \in derived :
        (d.appId = e.appId /\ d.achievementApiId = e.achievementApiId)
        => d.tokenId = e.tokenId

\* C24 witness: the id of one achievement was derived for two accounts, the
\* second time after a failed mint of it; the id of the other achievement
\* differs.
TokenIdWitness ==
    /\ \E d, e \in derived :
         /\ d.achievementApiId = e.achievementApiId
         /\ d.account # e.account
         /\ write.pending /\ write.tokenId = e.tokenId /\ write.to = e.account
    /\ \E d, e \in derived : d.tokenId # e.tokenId
    /\ \E name \in MintNames : mintingStatus[name] = "error"

\* The AchievementMinted events emitted for an owner and a token id.
MintedTo(owner, tokenId) ==
    {i \in 1..Len(events) : events[i].owner = owner /\ events[i].tokenId = tokenId}

\* C25: over any sequence of mintAchievement calls and transfers, at most one
\* mint succeeds, and one AchievementMinted event is emitted, for an owner and
\* a token id.
MintIdempotency ==
    \A owner \in Accounts, tokenId \in TokenIds :
        Cardinality(MintedTo(owner, tokenId)) <= 1

\* C34: handleMint calls writeContract only with an appId, a connected
\* wallet with an address, the wallet on the target chain and a token id
\* derived without error, and passes that account, id, appId and name; a
\* status becomes submitting only with that call, and a call of handleMint
\* that does not submit leaves the status unset, idle or error once it ends.
MintPreconditions ==
    [][/\ (write'.pending /\ ~write.pending)
          => /\ page.appId # NoAppId
             /\ page.isConnected /\ page.accountAddress \in Accounts
             /\ page.chainId = 84532
             /\ page.appId > 0
             /\ write'.to = page.accountAddress
             /\ write'.appId = page.appId
             /\ write'.tokenId
                  = [uint256 |-> Uint32Bytes(page.appId) \o StringToBytes(write'.achievementApiId)]
             /\ mintingStatus'[write'.achievementApiId] = "submitting"
       /\ \A name \in MintNames :
            /\ (mintingStatus'[name] = "submitting" /\ mintingStatus[name] # "submitting")
               => write'.pending /\ ~write.pending /\ write'.achievementApiId = name
            /\ (mintingStatus[name] = "switching_chain" /\ mintingStatus'[name] # "switching_chain")
               => mintingStatus'[name] \in {"idle", "error"}
            /\ (mintingStatus'[name] = "switching_chain") <=> (name \in switching')
            /\ mintingStatus'[name] \in {"none", "idle", "error", "switching_chain", "submitting"}]_vars

\* C34 witness: a mint of B on the wrong chain ended idle; then, on the
\* target chain, the mint of A is submitted.
MintPreconditionsWitness ==
    /\ write.pending /\ write.achievementApiId = "A"
    /\ mintingStatus["B"] = "idle"
    /\ mintingStatus["A"] = "submitting"
    /\ page.chainId = TARGET_CHAIN_ID

\* C35: a status that is submitting leaves submitting in the end, once the
\* wallet has settled the write.
MintStatusProgress ==
    \A name \in MintNames :
        (mintingStatus[name] = "submitting") ~> (mintingStatus[name] # "submitting")

\* C36: every AchievementMinted event pairs a token id with the appId and the
\* achievement the id is derived from.
EventConsistency ==
    \A i \in 1..Len(events) :
        events[i].tokenId
          = [uint256 |-> Uint32Bytes(events[i].appId) \o StringToBytes(events[i].achievementApiId)]

\* C37: two different pairs of appId and achievement name are packed to
\* different byte strings, so they get different token ids.
InjectivePacking ==
    \A d, e \in derived :
        (d.appId # e.appId \/ d.achievementApiId # e.achievementApiId)
        => d.tokenId # e.tokenId

\* C37 witness: ids derived for (4, "A") and (1089, ""), whose bytes would be
\* the same without the leading zero bytes of appId (4 65 and 4*256 + 65).
InjectiveWitness ==
    /\ \E d \in derived : d.appId = 4 /\ d.achievementApiId = "A"
    /\ \E e \in derived : e.appId = 1089 /\ e.achievementApiId = ""
    /\ Cardinality({d.tokenId : d \in derived}) = 2

\* C32: a request that does not end 200 leaves every entry it stored in the
\* cache, with the payload it fetched and 3600 seconds to live, and removes
\* no entry.
PartialProgressKept ==
    [][(~last.served /\ last'.served /\ last'.resp.status # 200)
       => /\ \A kind \in Kinds :
               Wrote(kind, last')
               => cache'[KeyOf(kind, last'.req)]
                    = [present |-> TRUE,
                       text |-> [json |-> Outcome(kind, last'.req).body.json],
                       ttl |-> 3600]
          /\ \A k \in Keys : cache[k].present => cache'[k].present]_vars

\* C32 witness: a request fetched and stored the player payload, then the
\* schema upstream answered 500; the player entry is in the cache.
PartialProgressWitness ==
    /\ last.served /\ last.resp.status = 500
    /\ Wrote("player", last)
    /\ last.req.schema.net = "http" /\ last.req.schema.status = 500
    /\ cache[PlayerCacheKey(last.req.steamId, last.req.appId)].present
    /\ ~cache[SchemaCacheKey(last.req.appId)].present

\* C33: a response carries the steamId of the request, and its achieved and
\* unlocktime values, and the player payload it was made from, are those of
\* the request's own account and game.
IdentityIsolation ==
    last.served
    => LET own == PlayerOf(last.req.steamId, last.req.appId)
       IN /\ last.data.player.t = "obj" => last.data.player = own
          /\ last.resp.status = 200
             => /\ last.resp.steamId = last.req.steamId
                /\ \A c \in 1..Len(last.resp.achievements) :
                     \E e \in 1..Len(own.playerstats.achievements) :
                       /\ own.playerstats.achievements[e].apiname
                            = last.resp.achievements[c].name
                       /\ last.resp.achievements[c].achieved
                            = (own.playerstats.achievements[e].achieved = 1)
                       /\ last.resp.achievements[c].unlocktime
                            = own.playerstats.achievements[e].unlocktime

\* C33 witness: account 8 is answered from its own cached payload while the
\* cache holds the payloads of account 7 for the same game and of account 8
\* for the other game.
IdentityWitness ==
    /\ last.served /\ last.resp.status = 200
    /\ last.req.steamId = "8" /\ last.req.appId = "4"
    /\ ~Called("player")
    /\ last.req.redis = "ok"
    /\ cache[PlayerCacheKey("7", "4")].present
    /\ cache[PlayerCacheKey("8", "5")].present

\* The cycles that have ended answer the hypothesis of C31: getBlockNumber
\* resolved with the head of the chain and getLogs, if called, resolved.
QueriesSucceed ==
    cycle.ran => /\ cycle.head = height
                 /\ cycle.fetch => cycle.logsOk

\* The worker has caught up: the watermark is the head and the cycle that
\* ended last did not fetch.
CaughtUp ==
    /\ lastProcessedBlock = height
    /\ cycle.ran /\ ~cycle.fetch
    /\ \A i \in 1..Len(running) : running[i].pc = "head"

\* C31: if from some cycle on every chain query succeeds and the head stays
\* fixed, then from some cycle on the watermark equals the head and every
\* cycle skips fetching.
CatchUpLiveness == <>[]QueriesSucceed => <>[]CaughtUp

\* C31 witness: the worker has caught up with a head that is more than one
\* poll above the block it was seeded at, in two fetches or more.
CatchUpWitness ==
    /\ CaughtUp
    /\ seeded # NoBlock /\ height > seeded + BLOCKS_PER_POLL
    /\ Cardinality(windows) >= 2

\* The claimed id is http or https, "://steamcommunity.com/openid/id/" and
\* then the digits, nothing before and nothing after.
IsSteamIdUrl(claimedId, digits) ==
    /\ digits # <<>>
    /\ \A i \in 1..Len(digits) : digits[i] \in DigitChars
    /\ \E scheme \in {HttpText, HttpText \o <<"s">>} :
         claimedId = scheme \o ClaimedIdPath \o digits

\* The callback request satisfies the three conditions of C38 for digits.
Authenticated(digits) ==
    /\ callback.mode = IdRes
    /\ callback.answer # FetchRejects
    /\ \E i \in 1..(Len(callback.answer) - Len(IsValidTrue) + 1) :
         SubSeq(callback.answer, i, i + Len(IsValidTrue) - 1) = IsValidTrue
    /\ IsSteamIdUrl(callback.claimedId, digits)

\* C38: the callback sets the steamSession cookie only if openid.mode is
\* id_res, Steam's answer contains is_valid:true and openid.claimed_id is a
\* steamcommunity.com/openid/id/<digits> URL; the cookie value is those
\* digits; on every other path no cookie is set and the redirect carries an
\* error parameter.
SessionEstablishment ==
    callback.ran
    => /\ callback.resp.cookie # NoCookie
          => Authenticated(callback.resp.cookie) /\ jar = callback.resp.cookie
       /\ callback.resp.cookie = NoCookie => callback.resp.error # NoErrorParam
       /\ (\E n \in 1..Len(callback.claimedId) :
             Authenticated(SubSeq(callback.claimedId,
                                  Len(callback.claimedId) - n + 1,
                                  Len(callback.claimedId))))
          => callback.resp.cookie # NoCookie /\ callback.resp.error = NoErrorParam

\* C38 witness: a callback over http with a two-digit id set the cookie to
\* those digits.
SessionWitness ==
    /\ callback.ran
    /\ callback.resp.cookie = <<"7", "6">>
    /\ jar = <<"7", "6">>
    /\ callback.resp.error = NoErrorParam

====
